---------------------------- MODULE Spec2Model ----------------------------
(***************************************************************************)
(* Weighted inner product argument of halo2_vc: the single-row variant     *)
(* (src/src/weighted_inner_product.rs) and the multi-row variant           *)
(* (src/src/modified_wip.rs), prover and verifier, as one state machine.   *)
(*                                                                         *)
(* Scalars (Fq) are the prime field of order Q.  Group elements (Ep) are   *)
(* formal linear combinations over a basis of independent generators: a    *)
(* point is the sequence of its coefficients, so two points are equal      *)
(* exactly when they are equal for independent generators.                 *)
(* The transcript is a random oracle sampled lazily: a squeeze is a        *)
(* function of everything written and squeezed before it.                  *)
(* OsRng is a tape picked by a seed at Init; Fq::random reads the tape.    *)
(***************************************************************************)
EXTENDS Integers, Sequences, FiniteSets, TLC

\* ------------------------------------------------------------------ bounds
\* witness tapes 0..MaxWitSeed
MaxWitSeed == 1
\* OsRng tapes 0..MaxRngSeed
MaxRngSeed == 1
\* the transcript emits challenges 0..MaxChal (capped at Q - 1)
MaxChal == 2

\* ------------------------------------------------------------- scalar field
\* order of the scalar field standing for pasta_curves::Fq
Q == 7

Fq == 0 .. (Q - 1)

Min(x, y) == IF x < y THEN x ELSE y

FAdd(x, y) == (x + y) % Q

FMul(x, y) == (x * y) % Q

FNeg(x) == (Q - x) % Q

FSquare(x) == (x * x) % Q

\* Field::invert: x^(Q - 2), the inverse of a non-zero x; zero has none and
\* the value the option wraps is zero
FInvert(x) == IF x = 0 THEN 0 ELSE CHOOSE y \in 1 .. (Q - 1) : (x * y) % Q = 1

\* a zero test that never fires
is_zero_never(e) == FALSE

\* e.is_zero() on a squeezed challenge, in transcript_L_R and transcript_A_B
is_zero(e) == e = 0

\* ------------------------------------------------------------------- group
\* Ep::identity() in a group spanned by d independent generators
Identity(d) == [i \in 1 .. d |-> 0]

\* the i-th independent generator
Unit(d, i) == [j \in 1 .. d |-> IF j = i THEN 1 ELSE 0]

\* res + q
GAdd(p, q) == [i \in 1 .. Len(p) |-> (p[i] + q[i]) % Q]

\* b * s
GMul(b, s) == [i \in 1 .. Len(b) |-> (b[i] * s) % Q]

GNeg(p) == [i \in 1 .. Len(p) |-> (Q - p[i]) % Q]

\* ------------------------------------------------------------ enum P
PPoint(pt) == [kind |-> "Point", point |-> pt, terms |-> <<>>]

PTerms(v) == [kind |-> "Terms", point |-> <<>>, terms |-> v]

\* ------------------------------------------------------- iterator helpers
\* a.iter().zip(b.iter()): stops at the shorter one
Zip(x, y) == [i \in 1 .. Min(Len(x), Len(y)) |-> <<x[i], y[i]>>]

RECURSIVE Flatten(_)
\* extend() over a sequence of sequences, in order
Flatten(ss) == IF ss = <<>> THEN <<>> ELSE Head(ss) \o Flatten(Tail(ss))

\* ----------------------------------------------------------- inner_product
RECURSIVE InnerLoop(_, _)
InnerLoop(z, acc) ==
    IF z = <<>> THEN acc
    ELSE InnerLoop(Tail(z), FAdd(acc, FMul(Head(z)[1], Head(z)[2])))

\* assert_eq!(a.len(), b.len()) of inner_product
inner_product_ok(a, b) == Len(a) = Len(b)

inner_product(a, b) == InnerLoop(Zip(a, b), 0)

\* ---------------------------------------------------------------- multiexp
RECURSIVE MultiexpLoop_dedup(_, _)
\* a loop that counts a point occurring several times only once
MultiexpLoop_dedup(v, res) ==
    IF v = <<>> THEN res
    ELSE MultiexpLoop_dedup(Tail(v),
            IF \E k \in 2 .. Len(v) : v[k][2] = Head(v)[2] THEN res
            ELSE GAdd(res, GMul(Head(v)[2], Head(v)[1])))

RECURSIVE MultiexpLoop(_, _)
\* for (s, b) in v { res = res + (b * s) }
MultiexpLoop(v, res) ==
    IF v = <<>> THEN res
    ELSE MultiexpLoop(Tail(v), GAdd(res, GMul(Head(v)[2], Head(v)[1])))

\* a loop that starts from its first term instead of the identity
multiexp_head_twice(p, d) ==
    IF p.kind = "Point" THEN p.point
    ELSE MultiexpLoop(p.terms,
                      IF p.terms = <<>> THEN Identity(d)
                      ELSE GMul(Head(p.terms)[2], Head(p.terms)[1]))

\* multiexp(p) in a group of dimension d
multiexp(p, d) ==
    IF p.kind = "Point" THEN p.point ELSE MultiexpLoop(p.terms, Identity(d))

\* ---------------------------------------------------- split_vector_in_half
\* a midpoint that leaves the extra element to the second half
SplitMid_floor(len) == len \div 2

\* let mid = vec.len() / 2 + vec.len() % 2
SplitMid(len) == (len \div 2) + (len % 2)

split_vector_in_half(vec) ==
    <<SubSeq(vec, 1, SplitMid(Len(vec))),
      SubSeq(vec, SplitMid(Len(vec)) + 1, Len(vec))>>

\* ------------------------------------------------------ challenge_products
Pow2(m) == 2 ^ m

\* a step of four slots instead of two
SaturatingSub2_four(slots) == IF slots >= 4 THEN slots - 4 ELSE 0

\* slots.saturating_sub(2)
SaturatingSub2(slots) == IF slots >= 2 THEN slots - 2 ELSE 0

\* SlotHigh with the inverse challenge.1 in place of challenge.0
SlotHigh_inverse(products, slots, challenge) ==
    [products EXCEPT ![slots + 1] = FMul(products[(slots \div 2) + 1], challenge[2])]

\* products[slots] = products[slots / 2] * challenge.0 (sequence index = slot + 1)
SlotHigh(products, slots, challenge) ==
    [products EXCEPT ![slots + 1] = FMul(products[(slots \div 2) + 1], challenge[1])]

\* the lower slot of a pair left as it was
SlotLow_skipped(products, slots, challenge) == products

\* products[slots - 1] = products[slots / 2] * challenge.1
SlotLow(products, slots, challenge) ==
    [products EXCEPT ![slots] = FMul(products[(slots \div 2) + 1], challenge[2])]

RECURSIVE SlotLoop(_, _, _)
\* while slots > 0 { ... }
SlotLoop(products, slots, challenge) ==
    IF slots > 0
    THEN SlotLoop(SlotLow(SlotHigh(products, slots, challenge), slots, challenge),
                  SaturatingSub2(slots), challenge)
    ELSE products

RECURSIVE RoundLoop(_, _, _)
\* for (j, challenge) in challenges.iter().enumerate().skip(1); j is 0-based
RoundLoop(products, challenges, j) ==
    IF j >= Len(challenges) THEN products
    ELSE RoundLoop(SlotLoop(products, Pow2(j + 1) - 1, challenges[j + 1]),
                   challenges, j + 1)

\* a challenge is the pair <<e, inv_e>>
challenge_products(challenges) ==
    LET ones == [i \in 1 .. Pow2(Len(challenges)) |-> 1]
    IN  IF challenges = <<>> THEN ones
        ELSE RoundLoop([ones EXCEPT ![1] = challenges[1][2], ![2] = challenges[1][1]],
                       challenges, 1)

\* debug_assert!(!product.is_zero()) over the table
products_nonzero(products) == \A i \in 1 .. Len(products) : products[i] # 0

\* ------------------------------------------------------------ BatchInverter
RECURSIVE BatchForward(_, _, _, _)
\* first pass: scratch[i] = product of the non-zero elements before i
BatchForward(elements, i, acc, scratch) ==
    IF i > Len(elements) THEN <<acc, scratch>>
    ELSE BatchForward(elements, i + 1,
                      IF elements[i] = 0 THEN acc ELSE FMul(acc, elements[i]),
                      Append(scratch, acc))

RECURSIVE BatchBackward_stale(_, _, _, _)
\* a second pass that never moves its accumulator on
BatchBackward_stale(elements, i, acc, scratch) ==
    IF i < 1 THEN elements
    ELSE BatchBackward_stale(
            [elements EXCEPT ![i] = IF elements[i] = 0 THEN 0 ELSE FMul(scratch[i], acc)],
            i - 1, acc, scratch)

RECURSIVE BatchBackward(_, _, _, _)
\* second pass, from the last element down
BatchBackward(elements, i, acc, scratch) ==
    IF i < 1 THEN elements
    ELSE BatchBackward(
            [elements EXCEPT ![i] = IF elements[i] = 0 THEN 0 ELSE FMul(scratch[i], acc)],
            i - 1,
            IF elements[i] = 0 THEN acc ELSE FMul(acc, elements[i]),
            scratch)

\* BatchInverter::invert_with_external_scratch(&mut inv_es, &mut scratch)
BatchInvert(elements) ==
    LET fw == BatchForward(elements, 1, 1, <<>>)
    IN  BatchBackward(elements, Len(elements), FInvert(fw[1]), fw[2])

\* ------------------------------------------------------------------- state
VARIABLES
    inp,           \* arguments of prove: variant, witness, generators, p
    rng,           \* OsRng: the rest of its tape
    transcript,    \* the transcript object: points written and squeezes so far
    oracle,        \* challenges the transcript hash has emitted: <<state, challenge>>
    pv,            \* locals of prove: g_bold, h_bold, a, b, alpha, L_vec, R_vec
    proof,         \* the WipProof prove returned
    vin,           \* arguments of verify: proof, generators, p
    vv,            \* locals of verify: P_terms, es, challenges, product_cache, ...
    pc,            \* where the program is
    err,           \* which panic ended the call
    ops,           \* operations of the running call, in order
    chal_log,      \* challenges squeezed by the running call, in order
    p_log,         \* the prover's transcript, challenges and operations as prove left them
    tamper         \* what the caller changed between prove and verify

vars == <<inp, rng, transcript, oracle, pv, proof, vin, vv, pc, err, ops,
          chal_log, p_log, tamper>>

\* ---------------------------------------------------------------- OsRng
\* next state of the tape
RngNext(x) == (3 * x + 1) % Q

RECURSIVE RngAfter(_, _)
\* the tape after cnt calls of Fq::random
RngAfter(x, cnt) == IF cnt = 0 THEN x ELSE RngAfter(RngNext(x), cnt - 1)

\* the i-th value Fq::random returns from tape state x (i = 1 is the next one)
Random(x, i) == RngAfter(x, i - 1)

\* --------------------------------------------------------------- transcript
\* transcript.write_point(pt)
write_point(t, pt) == Append(t, <<"point", pt>>)

\* the state squeeze_challenge_scalar leaves behind
squeezed(t) == Append(t, <<"squeeze", <<>>>>)

\* a hash that forgets what it gave in state t before
ChallengesAt_forgetful(t) == 0 .. Min(MaxChal, Q - 1)

\* the challenges the hash may give in state t: the one it gave before, or any
ChallengesAt(t) ==
    IF \E q \in oracle : q[1] = t
    THEN {q[2] : q \in {x \in oracle : x[1] = t}}
    ELSE 0 .. Min(MaxChal, Q - 1)

\* transcript_L_R / transcript_A_B up to the squeeze: the state the hash sees
transcript_pair(t, X, Y) == write_point(write_point(t, X), Y)

\* ------------------------------------------------------------------- inputs
Shape(variant, la, lb, lg, lh, kb, kh, kG) ==
    [variant |-> variant, la |-> la, lb |-> lb, lg |-> lg, lh |-> lh,
     kb |-> kb, kh |-> kh, kG |-> kG]

\* a single-row call with vectors of length n
SingleShape(n) == Shape("single", n, n, n, n, 1, 1, 1)

\* a multi-row call with k rows of length n
MultiShape(k, n) == Shape("multi", n, n, n, n, k, k, k)

\* largest power of two the well-formed single-row calls use: 2^MaxLogN
MaxLogN == 2

WellFormedShapes ==
    {SingleShape(Pow2(j)) : j \in 0 .. MaxLogN}
      \cup {MultiShape(1, 2), MultiShape(2, 1), MultiShape(2, 2), MultiShape(2, 4)}

\* lengths that are not a power of two
OddShapes == {SingleShape(3), MultiShape(2, 3), SingleShape(6)}

\* calls whose vector lengths disagree
MismatchShapes ==
    {Shape("single", 1, 2, 2, 2, 1, 1, 1), Shape("single", 2, 1, 2, 2, 1, 1, 1),
     Shape("single", 2, 2, 1, 2, 1, 1, 1), Shape("single", 2, 2, 4, 2, 1, 1, 1),
     Shape("single", 2, 2, 2, 1, 1, 1, 1), Shape("single", 2, 2, 2, 4, 1, 1, 1),
     Shape("single", 1, 1, 1, 2, 1, 1, 1), Shape("single", 4, 4, 4, 2, 1, 1, 1),
     Shape("multi", 1, 2, 2, 2, 2, 2, 2), Shape("multi", 2, 1, 2, 2, 2, 2, 2),
     Shape("multi", 2, 2, 1, 2, 2, 2, 2), Shape("multi", 2, 2, 2, 1, 2, 2, 2),
     Shape("multi", 1, 1, 1, 2, 2, 2, 2)}

\* dimension of the group a shape's generators span
Dim(sh) == sh.lg + (sh.kh * sh.lh) + sh.kG + 1

\* independent generators, as gens() draws them
GensOf(sh) ==
    [generators_g |-> [i \in 1 .. sh.lg |-> Unit(Dim(sh), i)],
     generators_h |-> [r \in 1 .. sh.kh |->
                         [j \in 1 .. sh.lh |-> Unit(Dim(sh), sh.lg + ((r - 1) * sh.lh) + j)]],
     generator_g  |-> [r \in 1 .. sh.kG |-> Unit(Dim(sh), sh.lg + (sh.kh * sh.lh) + r)],
     generator_h  |-> Unit(Dim(sh), Dim(sh))]

\* next value of a witness tape
WitNext(x) == (5 * x + 2) % Q

RECURSIVE WitAt(_, _)
\* the i-th value of the witness tape with seed x
WitAt(x, i) == IF i <= 1 THEN x ELSE WitAt(WitNext(x), i - 1)

\* a witness of the shape, read off a tape
TapeWitness(sh, seed) ==
    [a     |-> [i \in 1 .. sh.la |-> WitAt(seed, i)],
     b     |-> [r \in 1 .. sh.kb |-> [j \in 1 .. sh.lb |-> WitAt(seed, sh.la + ((r - 1) * sh.lb) + j)]],
     alpha |-> WitAt(seed, sh.la + (sh.kb * sh.lb) + 1)]

\* --------------------------------------------------- prove: opening check
\* p_terms of the single-row prove
p_terms_single(w, g) ==
    Zip(w.a, g.generators_g) \o Zip(w.b[1], g.generators_h[1])
      \o <<<<inner_product(w.a, w.b[1]), g.generator_g[1]>>>>
      \o <<<<w.alpha, g.generator_h>>>>

\* p_terms of the multi-row prove
p_terms_multi(w, g) ==
    Zip(w.a, g.generators_g)
      \o Flatten([r \in 1 .. Min(Len(w.b), Len(g.generators_h)) |->
                    Zip(w.b[r], g.generators_h[r])])
      \o [r \in 1 .. Min(Len(w.b), Len(g.generator_g)) |->
            <<inner_product(w.a, w.b[r]), g.generator_g[r]>>]
      \o <<<<w.alpha, g.generator_h>>>>

p_terms(variant, w, g) ==
    IF variant = "single" THEN p_terms_single(w, g) ELSE p_terms_multi(w, g)

\* the inner_product calls of the opening check pass their length assertion
p_terms_ip_ok(variant, w, g) ==
    IF variant = "single" THEN inner_product_ok(w.a, w.b[1])
    ELSE \A r \in 1 .. Min(Len(w.b), Len(g.generator_g)) : inner_product_ok(w.a, w.b[r])

\* dimension of the group of a call
DimOf(g) == Len(g.generator_h)

\* the commitment the caller passes
POf(kind, variant, w, g) ==
    LET terms == p_terms(variant, w, g)
        open  == multiexp(PTerms(terms), DimOf(g))
    IN  CASE kind = "PointGood" -> PPoint(open)
          [] kind = "PointBad"  -> PPoint(GAdd(open, g.generator_h))
          [] kind = "TermsGood" -> PTerms(terms)
          [] OTHER              -> PTerms(Append(terms, <<1, g.generator_h>>))

PKinds == {"PointGood", "PointBad", "TermsGood", "TermsBad"}

NoProof ==
    [L |-> <<>>, R |-> <<>>, A |-> <<>>, B |-> <<>>,
     r_answer |-> 0, s_answer |-> <<>>, delta_answer |-> 0]

NoLocals ==
    [g_bold |-> <<>>, h_bold |-> <<>>, a |-> <<>>, b |-> <<>>, alpha |-> 0,
     L_vec |-> <<>>, R_vec |-> <<>>, rounds |-> 0]

NoVerifyInput ==
    [proof |-> NoProof, generators_g |-> <<>>, generators_h |-> <<>>,
     generator_g |-> <<>>, generator_h |-> <<>>, p |-> PTerms(<<>>)]

NoLog == [transcript |-> <<>>, chal |-> <<>>, ops |-> <<>>]

NoVerifyLocals ==
    [P_terms |-> <<>>, es |-> <<>>, challenges |-> <<>>, product_cache |-> <<>>,
     multiexp_var |-> <<>>, result |-> <<>>]

\* main() up to the call of prove
InitWith(sh, w, kind, seed) ==
    /\ inp = [variant |-> sh.variant, witness |-> w, shape |-> sh, pkind |-> kind,
              generators_g |-> GensOf(sh).generators_g,
              generators_h |-> GensOf(sh).generators_h,
              generator_g  |-> GensOf(sh).generator_g,
              generator_h  |-> GensOf(sh).generator_h,
              p |-> POf(kind, sh.variant, w, GensOf(sh))]
    /\ rng = seed
    /\ transcript = <<>>
    /\ oracle = {}
    /\ pv = NoLocals
    /\ proof = NoProof
    /\ vin = NoVerifyInput
    /\ vv = NoVerifyLocals
    /\ pc = "prove_entry"
    /\ err = "none"
    /\ ops = <<>>
    /\ chal_log = <<>>
    /\ p_log = NoLog
    /\ tamper = "none"

Init ==
    \E sh \in WellFormedShapes \cup OddShapes \cup MismatchShapes,
       ws \in 0 .. MaxWitSeed, kind \in PKinds, seed \in 0 .. MaxRngSeed :
        InitWith(sh, TapeWitness(sh, ws), kind, seed)

\* ------------------------------------------------------ prove: entry
\* assert_eq!(a.len(), b.len()) (every row of b in the multi-row prove)
witness_lengths_ok(w) == \A r \in 1 .. Len(w.b) : Len(w.a) = Len(w.b[r])

\* what the entry of prove does before its loop: the opening check when p is
\* a point, then the length assertions
ProveEntryOutcome_unchecked(i) ==
    IF ~ witness_lengths_ok(i.witness) \/ Len(i.generators_g) # Len(i.witness.a)
    THEN [pc |-> "prove_panic", err |-> "dimension_mismatch", ops |-> <<>>]
    ELSE [pc |-> "prove_loop", err |-> "none", ops |-> <<>>]

ProveEntryOutcome(i) ==
    LET isPoint == i.p.kind = "Point"
        checked == IF isPoint THEN <<"multiexp">> ELSE <<>>
    IN  IF isPoint /\ ~ p_terms_ip_ok(i.variant, i.witness, i)
        THEN [pc |-> "prove_panic", err |-> "dimension_mismatch", ops |-> <<>>]
        ELSE IF isPoint /\ multiexp(PTerms(p_terms(i.variant, i.witness, i)), DimOf(i)) # i.p.point
        THEN [pc |-> "prove_panic", err |-> "opening_mismatch", ops |-> checked]
        ELSE IF ~ witness_lengths_ok(i.witness)
        THEN [pc |-> "prove_panic", err |-> "dimension_mismatch", ops |-> checked]
        ELSE IF Len(i.generators_g) # Len(i.witness.a)
        THEN [pc |-> "prove_panic", err |-> "dimension_mismatch", ops |-> checked]
        ELSE [pc |-> "prove_loop", err |-> "none", ops |-> checked]

\* an entry of prove that writes the statement p to the transcript
ProveEntry_binds_p ==
    /\ pc = "prove_entry"
    /\ LET o == ProveEntryOutcome(inp)
       IN  /\ pc' = o.pc
           /\ err' = o.err
           /\ ops' = ops \o o.ops
           /\ transcript' = IF o.pc = "prove_loop"
                            THEN write_point(transcript, multiexp(inp.p, DimOf(inp)))
                            ELSE transcript
           /\ pv' = IF o.pc = "prove_loop"
                    THEN [g_bold |-> inp.generators_g, h_bold |-> inp.generators_h,
                          a |-> inp.witness.a, b |-> inp.witness.b,
                          alpha |-> inp.witness.alpha,
                          L_vec |-> <<>>, R_vec |-> <<>>, rounds |-> 0]
                    ELSE pv
    /\ UNCHANGED <<inp, rng, oracle, proof, vin, vv, chal_log, p_log, tamper>>

ProveEntry ==
    /\ pc = "prove_entry"
    /\ LET o == ProveEntryOutcome(inp)
       IN  /\ pc' = o.pc
           /\ err' = o.err
           /\ ops' = ops \o o.ops
           /\ pv' = IF o.pc = "prove_loop"
                    THEN [g_bold |-> inp.generators_g, h_bold |-> inp.generators_h,
                          a |-> inp.witness.a, b |-> inp.witness.b,
                          alpha |-> inp.witness.alpha,
                          L_vec |-> <<>>, R_vec |-> <<>>, rounds |-> 0]
                    ELSE pv
    /\ UNCHANGED <<inp, rng, transcript, oracle, proof, vin, vv, chal_log,
                   p_log, tamper>>

\* ------------------------------------------------------ prove: one round
\* the halves of the working vectors
SplitAll(l) ==
    [a1 |-> split_vector_in_half(l.a)[1], a2 |-> split_vector_in_half(l.a)[2],
     b1 |-> [r \in 1 .. Len(l.b) |-> split_vector_in_half(l.b[r])[1]],
     b2 |-> [r \in 1 .. Len(l.b) |-> split_vector_in_half(l.b[r])[2]],
     g_bold1 |-> split_vector_in_half(l.g_bold)[1],
     g_bold2 |-> split_vector_in_half(l.g_bold)[2],
     h_bold1 |-> [r \in 1 .. Len(l.h_bold) |-> split_vector_in_half(l.h_bold[r])[1]],
     h_bold2 |-> [r \in 1 .. Len(l.h_bold) |-> split_vector_in_half(l.h_bold[r])[2]]]

\* the assert_eq!(.., n_hat) block
halves_ok(s) ==
    LET n_hat == Len(s.g_bold1)
    IN  /\ Len(s.a1) = n_hat
        /\ Len(s.a2) = n_hat
        /\ \A r \in 1 .. Len(s.b1) : Len(s.b1[r]) = n_hat
        /\ \A r \in 1 .. Len(s.b2) : Len(s.b2[r]) = n_hat
        /\ Len(s.g_bold2) = n_hat
        /\ \A r \in 1 .. Len(s.h_bold1) : Len(s.h_bold1[r]) = n_hat
        /\ \A r \in 1 .. Len(s.h_bold2) : Len(s.h_bold2[r]) = n_hat

\* c_l: one cross inner product per row
c_l_of(s) == [r \in 1 .. Len(s.b2) |-> inner_product(s.a1, s.b2[r])]

c_r_of(s) == [r \in 1 .. Len(s.b1) |-> inner_product(s.a2, s.b1[r])]

\* rows of b zipped with rows of h_bold, each pair zipped and appended in order
RowTerms(brows, hrows) ==
    Flatten([r \in 1 .. Min(Len(brows), Len(hrows)) |-> Zip(brows[r], hrows[r])])

L_terms_single(s, d_l, i) ==
    Zip(s.a1, s.g_bold2) \o Zip(s.b2[1], s.h_bold1[1])
      \o <<<<c_l_of(s)[1], i.generator_g[1]>>>> \o <<<<d_l, i.generator_h>>>>

R_terms_single(s, d_r, i) ==
    Zip(s.a2, s.g_bold1) \o Zip(s.b1[1], s.h_bold2[1])
      \o <<<<c_r_of(s)[1], i.generator_g[1]>>>> \o <<<<d_r, i.generator_h>>>>

L_terms_multi(s, d_l, i) ==
    Zip(s.a1, s.g_bold2) \o Zip(c_l_of(s), i.generator_g)
      \o <<<<d_l, i.generator_h>>>> \o RowTerms(s.b2, s.h_bold1)

R_terms_multi(s, d_r, i) ==
    Zip(s.a2, s.g_bold1) \o Zip(c_r_of(s), i.generator_g)
      \o <<<<d_r, i.generator_h>>>> \o RowTerms(s.b1, s.h_bold2)

L_terms(s, d_l, i) ==
    IF i.variant = "single" THEN L_terms_single(s, d_l, i) ELSE L_terms_multi(s, d_l, i)

R_terms(s, d_r, i) ==
    IF i.variant = "single" THEN R_terms_single(s, d_r, i) ELSE R_terms_multi(s, d_r, i)

\* next_G_H: new_g_bold
new_g_bold(g_bold1, g_bold2, e, inv_e, d) ==
    [k \in 1 .. Min(Len(g_bold1), Len(g_bold2)) |->
        multiexp(PTerms(<<<<inv_e, g_bold1[k]>>, <<e, g_bold2[k]>>>>), d)]

\* new_h_row folding h_bold with the assignment used for g_bold
new_h_row_like_g(h1, h2, e, inv_e, d) ==
    [k \in 1 .. Min(Len(h1), Len(h2)) |->
        multiexp(PTerms(<<<<inv_e, h1[k]>>, <<e, h2[k]>>>>), d)]

\* next_G_H: one row of new_h_bold
new_h_row(h1, h2, e, inv_e, d) ==
    [k \in 1 .. Min(Len(h1), Len(h2)) |->
        multiexp(PTerms(<<<<e, h1[k]>>, <<inv_e, h2[k]>>>>), d)]

new_h_bold(h_bold1, h_bold2, e, inv_e, d) ==
    [r \in 1 .. Min(Len(h_bold1), Len(h_bold2)) |->
        new_h_row(h_bold1[r], h_bold2[r], e, inv_e, d)]

\* the scaled halves laid end to end instead of added
fold_a_unpaired(a1, a2, e, inv_e) ==
    [k \in 1 .. Len(a1) |-> FMul(a1[k], e)] \o [k \in 1 .. Len(a2) |-> FMul(a2[k], inv_e)]

\* a = a1 * e + a2 * inv_e
fold_a(a1, a2, e, inv_e) ==
    [k \in 1 .. Min(Len(a1), Len(a2)) |-> FAdd(FMul(a1[k], e), FMul(a2[k], inv_e))]

\* one row: b = b1 * inv_e + b2 * e
fold_b_row(b1, b2, e, inv_e) ==
    [k \in 1 .. Min(Len(b1), Len(b2)) |-> FAdd(FMul(b1[k], inv_e), FMul(b2[k], e))]

fold_b(b1, b2, e, inv_e) ==
    [r \in 1 .. Min(Len(b1), Len(b2)) |-> fold_b_row(b1[r], b2[r], e, inv_e)]

\* the two blinds weighted the other way round
fold_alpha_swapped(alpha, d_l, d_r, e, inv_e) ==
    FAdd(alpha, FAdd(FMul(d_l, FSquare(inv_e)), FMul(d_r, FSquare(e))))

\* alpha += (d_l * e_square) + (d_r * inv_e_square)
fold_alpha(alpha, d_l, d_r, e, inv_e) ==
    FAdd(alpha, FAdd(FMul(d_l, FSquare(e)), FMul(d_r, FSquare(inv_e))))

\* operations of one round up to the squeeze, and after it
RoundOpsCommit == <<"random", "random", "multiexp", "multiexp",
                    "write_point", "write_point", "squeeze">>

RoundOpsFold(s) ==
    <<"invert">> \o [k \in 1 .. Len(s.g_bold1) |-> "multiexp"]
      \o Flatten([r \in 1 .. Len(s.h_bold1) |-> [k \in 1 .. Len(s.h_bold1[r]) |-> "multiexp"]])
      \o <<"fold">>

\* FoldedLocals with R put in front of R_vec instead of behind it
FoldedLocals_R_in_front(l, s, L, R, d_l, d_r, e, d) ==
    [g_bold |-> new_g_bold(s.g_bold1, s.g_bold2, e, FInvert(e), d),
     h_bold |-> new_h_bold(s.h_bold1, s.h_bold2, e, FInvert(e), d),
     a      |-> fold_a(s.a1, s.a2, e, FInvert(e)),
     b      |-> fold_b(s.b1, s.b2, e, FInvert(e)),
     alpha  |-> fold_alpha(l.alpha, d_l, d_r, e, FInvert(e)),
     L_vec  |-> Append(l.L_vec, L),
     R_vec  |-> <<R>> \o l.R_vec,
     rounds |-> l.rounds + 1]

\* locals after the fold of a round with challenge e
FoldedLocals(l, s, L, R, d_l, d_r, e, d) ==
    [g_bold |-> new_g_bold(s.g_bold1, s.g_bold2, e, FInvert(e), d),
     h_bold |-> new_h_bold(s.h_bold1, s.h_bold2, e, FInvert(e), d),
     a      |-> fold_a(s.a1, s.a2, e, FInvert(e)),
     b      |-> fold_b(s.b1, s.b2, e, FInvert(e)),
     alpha  |-> fold_alpha(l.alpha, d_l, d_r, e, FInvert(e)),
     L_vec  |-> Append(l.L_vec, L),
     R_vec  |-> Append(l.R_vec, R),
     rounds |-> l.rounds + 1]

\* one pass of while g_bold.len() > 1
ProveRound ==
    /\ pc = "prove_loop"
    /\ Len(pv.g_bold) > 1
    /\ LET s   == SplitAll(pv)
           d_l == Random(rng, 1)
           d_r == Random(rng, 2)
           L   == multiexp(PTerms(L_terms(s, d_l, inp)), DimOf(inp))
           R   == multiexp(PTerms(R_terms(s, d_r, inp)), DimOf(inp))
           t   == transcript_pair(transcript, L, R)
       IN  IF ~ halves_ok(s)
           THEN /\ pc' = "prove_panic"
                /\ err' = "dimension_mismatch"
                /\ UNCHANGED <<rng, transcript, oracle, pv, ops, chal_log>>
           ELSE \E e \in ChallengesAt(t) :
                /\ rng' = RngAfter(rng, 2)
                /\ transcript' = squeezed(t)
                /\ oracle' = oracle \cup {<<t, e>>}
                /\ chal_log' = Append(chal_log, e)
                /\ IF is_zero(e)
                   THEN /\ pc' = "prove_panic"
                        /\ err' = "zero_challenge"
                        /\ ops' = ops \o RoundOpsCommit
                        /\ pv' = [pv EXCEPT !.L_vec = Append(@, L), !.R_vec = Append(@, R)]
                   ELSE /\ pc' = "prove_loop"
                        /\ err' = err
                        /\ ops' = ops \o RoundOpsCommit \o RoundOpsFold(s)
                        /\ pv' = FoldedLocals(pv, s, L, R, d_l, d_r, e, DimOf(inp))
    /\ UNCHANGED <<inp, proof, vin, vv, p_log, tamper>>

\* ------------------------------------------------------ prove: n == 1
\* the assert_eq!(.., 1) block after the loop
final_lengths_ok(l) ==
    /\ Len(l.g_bold) = 1
    /\ \A r \in 1 .. Len(l.h_bold) : Len(l.h_bold[r]) = 1
    /\ Len(l.a) = 1
    /\ \A r \in 1 .. Len(l.b) : Len(l.b[r]) = 1

\* the blinds drawn after the loop: r, one s per row of h_bold, delta, long_n
FinalBlinds(x, l) ==
    [r      |-> Random(x, 1),
     s      |-> [k \in 1 .. Len(l.h_bold) |-> Random(x, 1 + k)],
     delta  |-> Random(x, Len(l.h_bold) + 2),
     long_n |-> Random(x, Len(l.h_bold) + 3)]

A_terms_single(l, bl, i) ==
    <<<<bl.r, l.g_bold[1]>>, <<bl.s[1], l.h_bold[1][1]>>,
      <<FAdd(FMul(bl.r, l.b[1][1]), FMul(bl.s[1], l.a[1])), i.generator_g[1]>>,
      <<bl.delta, i.generator_h>>>>

B_terms_single(l, bl, i) ==
    <<<<FMul(bl.r, bl.s[1]), i.generator_g[1]>>, <<bl.long_n, i.generator_h>>>>

\* h_terms, g_terms and A_terms of the multi-row prove
A_terms_multi(l, bl, i) ==
    <<<<bl.r, l.g_bold[1]>>, <<bl.delta, i.generator_h>>>>
      \o [k \in 1 .. Min(Len(bl.s), Len(l.h_bold)) |-> <<bl.s[k], l.h_bold[k][1]>>]
      \o [k \in 1 .. Min(Min(Len(bl.s), Len(i.generator_g)), Len(l.b)) |->
            <<FAdd(FMul(bl.r, l.b[k][1]), FMul(bl.s[k], l.a[1])), i.generator_g[k]>>]

B_terms_multi(l, bl, i) ==
    <<<<bl.long_n, i.generator_h>>>>
      \o [k \in 1 .. Min(Len(bl.s), Len(i.generator_g)) |->
            <<FMul(bl.r, bl.s[k]), i.generator_g[k]>>]

A_terms(l, bl, i) ==
    IF i.variant = "single" THEN A_terms_single(l, bl, i) ELSE A_terms_multi(l, bl, i)

B_terms(l, bl, i) ==
    IF i.variant = "single" THEN B_terms_single(l, bl, i) ELSE B_terms_multi(l, bl, i)

\* r_answer without the challenge: r + a[0]
r_answer_of_no_challenge(l, bl, e) == FAdd(bl.r, l.a[1])

\* r_answer = r + (a[0] * e)
r_answer_of(l, bl, e) == FAdd(bl.r, FMul(l.a[1], e))

\* s_answer: s + (b[0] * e), one per zipped (s, b) row
s_answer_of(l, bl, e) ==
    [k \in 1 .. Min(Len(bl.s), Len(l.b)) |-> FAdd(bl.s[k], FMul(l.b[k][1], e))]

\* delta_answer = long_n + (delta * e) + (alpha * e.square())
delta_answer_of(l, bl, e) ==
    FAdd(FAdd(bl.long_n, FMul(bl.delta, e)), FMul(l.alpha, FSquare(e)))

FinalOpsCommit(l) ==
    <<"random">> \o [k \in 1 .. Len(l.h_bold) |-> "random"] \o <<"random", "random">>
      \o <<"multiexp", "multiexp", "write_point", "write_point", "squeeze">>

\* the n == 1 case: A, B, the last challenge and the answers
ProveFinal ==
    /\ pc = "prove_loop"
    /\ Len(pv.g_bold) <= 1
    /\ LET bl == FinalBlinds(rng, pv)
           A  == multiexp(PTerms(A_terms(pv, bl, inp)), DimOf(inp))
           B  == multiexp(PTerms(B_terms(pv, bl, inp)), DimOf(inp))
           t  == transcript_pair(transcript, A, B)
       IN  IF ~ final_lengths_ok(pv)
           THEN /\ pc' = "prove_panic"
                /\ err' = "dimension_mismatch"
                /\ UNCHANGED <<rng, transcript, oracle, proof, ops, chal_log>>
           ELSE \E e \in ChallengesAt(t) :
                /\ rng' = RngAfter(rng, Len(pv.h_bold) + 3)
                /\ transcript' = squeezed(t)
                /\ oracle' = oracle \cup {<<t, e>>}
                /\ chal_log' = Append(chal_log, e)
                /\ ops' = ops \o FinalOpsCommit(pv)
                /\ IF is_zero(e)
                   THEN /\ pc' = "prove_panic"
                        /\ err' = "zero_challenge"
                        /\ proof' = proof
                   ELSE /\ pc' = "proved"
                        /\ err' = err
                        /\ proof' = [L |-> pv.L_vec, R |-> pv.R_vec, A |-> A, B |-> B,
                                     r_answer |-> r_answer_of(pv, bl, e),
                                     s_answer |-> s_answer_of(pv, bl, e),
                                     delta_answer |-> delta_answer_of(pv, bl, e)]
    /\ UNCHANGED <<inp, pv, vin, vv, p_log, tamper>>

\* ------------------------------------------------------ main: call verify
\* main(): a fresh transcript, then verify on the proof, the generators and p
MainCallVerify ==
    /\ pc = "proved"
    /\ pc' = "verify_entry"
    /\ p_log' = [transcript |-> transcript, chal |-> chal_log, ops |-> ops]
    /\ transcript' = <<>>
    /\ ops' = <<>>
    /\ chal_log' = <<>>
    /\ vin' = [proof |-> proof, generators_g |-> inp.generators_g,
               generators_h |-> inp.generators_h, generator_g |-> inp.generator_g,
               generator_h |-> inp.generator_h, p |-> inp.p]
    /\ UNCHANGED <<inp, rng, oracle, pv, proof, vv, err, tamper>>

\* ------------------------------------------------------ verify: entry
RECURSIVE LrLenLoop(_, _)
\* while (1 << lr_len) < generators_g.len() { lr_len += 1 }
LrLenLoop(lr_len, len) ==
    IF Pow2(lr_len) < len THEN LrLenLoop(lr_len + 1, len) ELSE lr_len

lr_len_of(generators_g) == LrLenLoop(0, Len(generators_g))

\* the L/R length assertions without assert_eq!(generators_g.len(), 1 << lr_len)
lr_lengths_ok_no_pow2(i) ==
    /\ Len(i.proof.L) = lr_len_of(i.generators_g)
    /\ Len(i.proof.R) = lr_len_of(i.generators_g)

\* the three assertions on the L/R lengths
lr_lengths_ok(i) ==
    /\ Len(i.proof.L) = lr_len_of(i.generators_g)
    /\ Len(i.proof.R) = lr_len_of(i.generators_g)
    /\ Len(i.generators_g) = Pow2(lr_len_of(i.generators_g))

\* let mut P_terms = match p { .. }
P_terms_of(p) == IF p.kind = "Point" THEN <<<<1, p.point>>>> ELSE p.terms

VerifyEntry ==
    /\ pc = "verify_entry"
    /\ IF lr_lengths_ok(vin)
       THEN /\ pc' = "verify_rounds"
            /\ err' = err
            /\ vv' = [vv EXCEPT !.P_terms = P_terms_of(vin.p)]
       ELSE /\ pc' = "verify_panic"
            /\ err' = "lr_length"
            /\ vv' = vv
    /\ UNCHANGED <<inp, rng, transcript, oracle, pv, proof, vin, ops, chal_log,
                   p_log, tamper>>

\* ------------------------------------------------------ verify: challenges
\* the pair of a pass in the order (R, L)
VerifyRoundPoints_swapped(pr, j) == <<pr.R[j], pr.L[j]>>

\* the (L, R) pair the j-th pass of the loop over proof.L.iter().zip(proof.R.iter()) writes
VerifyRoundPoints(pr, j) == <<pr.L[j], pr.R[j]>>

\* one pass of the loop: es.push(transcript_L_R(transcript, *L, *R))
VerifyRound ==
    /\ pc = "verify_rounds"
    /\ Len(vv.es) < Min(Len(vin.proof.L), Len(vin.proof.R))
    /\ LET LR == VerifyRoundPoints(vin.proof, Len(vv.es) + 1)
           t  == transcript_pair(transcript, LR[1], LR[2])
       IN  \E e \in ChallengesAt(t) :
            /\ transcript' = squeezed(t)
            /\ oracle' = oracle \cup {<<t, e>>}
            /\ chal_log' = Append(chal_log, e)
            /\ ops' = ops \o <<"write_point", "write_point", "squeeze">>
            /\ IF is_zero(e)
               THEN /\ pc' = "verify_panic"
                    /\ err' = "zero_challenge"
                    /\ vv' = vv
               ELSE /\ pc' = "verify_rounds"
                    /\ err' = err
                    /\ vv' = [vv EXCEPT !.es = Append(@, e)]
    /\ UNCHANGED <<inp, rng, pv, proof, vin, p_log, tamper>>

\* ------------------------------------------------------ verify: the check
\* challenges: the pairs (e, inv_e) in round order
challenges_of(es, inv_es) == [j \in 1 .. Min(Len(es), Len(inv_es)) |-> <<es[j], inv_es[j]>>]

\* P_terms after the pushes of (e_square, L) and (inv_e_square, R) of every round
P_terms_rounds(P_terms, challenges, pr) ==
    P_terms \o Flatten([j \in 1 .. Min(Len(challenges), Min(Len(pr.L), Len(pr.R))) |->
                          <<<<FSquare(challenges[j][1]), pr.L[j]>>,
                            <<FSquare(challenges[j][2]), pr.R[j]>>>>])

\* every scalar multiplied by neg_e_square twice
scale_terms_twice(terms, neg_e_square) ==
    [k \in 1 .. Len(terms) |->
        <<FMul(FMul(terms[k][1], neg_e_square), neg_e_square), terms[k][2]>>]

\* for (scalar, _) in multiexp_var.iter_mut() { *scalar *= neg_e_square }
scale_terms(terms, neg_e_square) ==
    [k \in 1 .. Len(terms) |-> <<FMul(terms[k][1], neg_e_square), terms[k][2]>>]

\* g_bold_terms without the factor r_answer
g_bold_terms_unscaled(i, product_cache, e) ==
    [k \in 1 .. Len(i.generators_g) |-> <<FMul(product_cache[k], e), i.generators_g[k]>>]

\* the terms (product_cache[i] * re, generators_g[i])
g_bold_terms(i, product_cache, e) ==
    [k \in 1 .. Len(i.generators_g) |->
        <<FMul(product_cache[k], FMul(i.proof.r_answer, e)), i.generators_g[k]>>]

\* single-row: (se * product_cache[len - 1 - i], generators_h[i]) for i in 0 .. generators_g.len()
h_bold_terms_single(i, product_cache, e) ==
    [k \in 1 .. Len(i.generators_g) |->
        <<FMul(FMul(i.proof.s_answer[1], e), product_cache[Len(product_cache) + 1 - k]),
          i.generators_h[1][k]>>]

\* multi-row: the same for every row i and column j, with se = s_answer[i] * e
h_bold_terms_multi(i, product_cache, e) ==
    Flatten([r \in 1 .. Len(i.generators_h) |->
        [k \in 1 .. Len(i.generators_h[r]) |->
            <<FMul(FMul(i.proof.s_answer[r], e), product_cache[Len(product_cache) + 1 - k]),
              i.generators_h[r][k]>>]])

\* (r_answer * s_answer, generator_g), one per entry of generator_g
generator_g_terms(i) ==
    [k \in 1 .. Len(i.generator_g) |->
        <<FMul(i.proof.r_answer, i.proof.s_answer[k]), i.generator_g[k]>>]

\* the indexing of the final pushes stays in bounds
verify_index_ok(variant, i, product_cache) ==
    IF variant = "single"
    THEN Len(i.generators_h[1]) >= Len(i.generators_g)
    ELSE /\ Len(i.proof.s_answer) >= Len(i.generators_h)
         /\ \A r \in 1 .. Len(i.generators_h) : Len(i.generators_h[r]) <= Len(product_cache)
         /\ Len(i.proof.s_answer) >= Len(i.generator_g)

\* multiexp_var as handed to the last multiexp
multiexp_var_of(variant, i, P_terms, product_cache, e) ==
    scale_terms(P_terms, FNeg(FSquare(e)))
      \o g_bold_terms(i, product_cache, e)
      \o (IF variant = "single" THEN h_bold_terms_single(i, product_cache, e)
          ELSE h_bold_terms_multi(i, product_cache, e))
      \o <<<<FNeg(e), i.proof.A>>>>
      \o generator_g_terms(i)
      \o <<<<i.proof.delta_answer, i.generator_h>>>>
      \o <<<<FNeg(1), i.proof.B>>>>

\* VerifyVerdict without the final assertion
VerifyVerdict_unchecked(variant, i, P_terms, product_cache, e) ==
    [pc |-> "verify_returned", err |-> "none",
     multiexp_var |-> multiexp_var_of(variant, i, P_terms, product_cache, e),
     result |-> multiexp(PTerms(multiexp_var_of(variant, i, P_terms, product_cache, e)), DimOf(i)),
     ops |-> <<"multiexp">>]

\* how verify ends once every challenge is known
VerifyVerdict(variant, i, P_terms, product_cache, e) ==
    IF ~ verify_index_ok(variant, i, product_cache)
    THEN [pc |-> "verify_panic", err |-> "index_out_of_bounds",
          multiexp_var |-> <<>>, result |-> <<>>, ops |-> <<>>]
    ELSE LET mv  == multiexp_var_of(variant, i, P_terms, product_cache, e)
             res == multiexp(PTerms(mv), DimOf(i))
         IN  IF res = Identity(DimOf(i))
             THEN [pc |-> "verify_returned", err |-> "none",
                   multiexp_var |-> mv, result |-> res, ops |-> <<"multiexp">>]
             ELSE [pc |-> "verify_panic", err |-> "verification_failed",
                   multiexp_var |-> mv, result |-> res, ops |-> <<"multiexp">>]

\* batch inversion, the product table, the last challenge and the final assertion
VerifyFinish ==
    /\ pc = "verify_rounds"
    /\ Len(vv.es) >= Min(Len(vin.proof.L), Len(vin.proof.R))
    /\ LET inv_es        == BatchInvert(vv.es)
           challenges    == challenges_of(vv.es, inv_es)
           P_terms       == P_terms_rounds(vv.P_terms, challenges, vin.proof)
           product_cache == challenge_products(challenges)
           t             == transcript_pair(transcript, vin.proof.A, vin.proof.B)
       IN  \E e \in ChallengesAt(t) :
            LET v == VerifyVerdict(inp.variant, vin, P_terms, product_cache, e)
            IN  /\ transcript' = squeezed(t)
                /\ oracle' = oracle \cup {<<t, e>>}
                /\ chal_log' = Append(chal_log, e)
                /\ IF is_zero(e)
                   THEN /\ pc' = "verify_panic"
                        /\ err' = "zero_challenge"
                        /\ ops' = ops \o <<"batch_invert", "challenge_products",
                                           "write_point", "write_point", "squeeze">>
                        /\ vv' = [vv EXCEPT !.challenges = challenges,
                                            !.P_terms = P_terms,
                                            !.product_cache = product_cache]
                   ELSE /\ pc' = v.pc
                        /\ err' = v.err
                        /\ ops' = ops \o <<"batch_invert", "challenge_products",
                                           "write_point", "write_point", "squeeze">> \o v.ops
                        /\ vv' = [vv EXCEPT !.challenges = challenges,
                                            !.P_terms = P_terms,
                                            !.product_cache = product_cache,
                                            !.multiexp_var = v.multiexp_var,
                                            !.result = v.result]
    /\ UNCHANGED <<inp, rng, pv, proof, vin, p_log, tamper>>

\* ------------------------------------------------------------ the program
Next ==
    \/ ProveEntry
    \/ ProveRound
    \/ ProveFinal
    \/ MainCallVerify
    \/ VerifyEntry
    \/ VerifyRound
    \/ VerifyFinish

Spec == Init /\ [][Next]_vars

\* ------------------------------------------- callers that change the call
\* replies a caller may put in place of a response scalar
OtherScalars(x) == Fq \ {x}

\* the caller replaces one response scalar of the proof before verify
TamperScalar ==
    /\ pc = "verify_entry"
    /\ tamper = "none"
    /\ \/ \E x \in OtherScalars(vin.proof.r_answer) :
            /\ vin' = [vin EXCEPT !.proof.r_answer = x]
            /\ tamper' = "r_answer"
       \/ \E k \in 1 .. Len(vin.proof.s_answer) :
          \E x \in OtherScalars(vin.proof.s_answer[k]) :
            /\ vin' = [vin EXCEPT !.proof.s_answer[k] = x]
            /\ tamper' = "s_answer"
       \/ \E x \in OtherScalars(vin.proof.delta_answer) :
            /\ vin' = [vin EXCEPT !.proof.delta_answer = x]
            /\ tamper' = "delta_answer"
    /\ UNCHANGED <<inp, rng, transcript, oracle, pv, proof, vv, pc, err, ops,
                   chal_log, p_log>>

\* the caller hands verify one generator with its sign flipped
FlipGenerator ==
    /\ pc = "verify_entry"
    /\ tamper = "none"
    /\ \/ \E k \in 1 .. Len(vin.generators_g) :
            /\ vin' = [vin EXCEPT !.generators_g[k] = GNeg(@)]
            /\ tamper' = "flip_g_bold"
       \/ \E r \in 1 .. Len(vin.generators_h) : \E k \in 1 .. Len(vin.generators_h[r]) :
            /\ vin' = [vin EXCEPT !.generators_h[r][k] = GNeg(@)]
            /\ tamper' = "flip_h_bold"
       \/ \E r \in 1 .. Len(vin.generator_g) :
            /\ vin' = [vin EXCEPT !.generator_g[r] = GNeg(@)]
            /\ tamper' = "flip_generator_g"
       \/ /\ vin' = [vin EXCEPT !.generator_h = GNeg(@)]
          /\ tamper' = "flip_generator_h"
    /\ UNCHANGED <<inp, rng, transcript, oracle, pv, proof, vv, pc, err, ops,
                   chal_log, p_log>>

\* a sequence one shorter (d = -1), as it is (d = 0), or one longer (d = 1)
Resized(seq, d, extra) ==
    IF d < 0 THEN SubSeq(seq, 1, Len(seq) - 1)
    ELSE IF d > 0 THEN Append(seq, extra)
    ELSE seq

\* the caller hands verify a proof or generators of another length
ResizeInputs ==
    /\ pc = "verify_entry"
    /\ tamper = "none"
    /\ \E dl \in {-1, 0, 1}, dr \in {-1, 0, 1}, dg \in {-1, 0, 1} :
        /\ <<dl, dr, dg>> # <<0, 0, 0>>
        /\ vin' = [vin EXCEPT
                     !.proof.L = Resized(@, dl, vin.proof.A),
                     !.proof.R = Resized(@, dr, vin.proof.B),
                     !.generators_g = Resized(@, dg, vin.generator_h)]
        /\ tamper' = "lengths"
    /\ UNCHANGED <<inp, rng, transcript, oracle, pv, proof, vv, pc, err, ops,
                   chal_log, p_log>>

\* the caller hands verify a transcript that has absorbed something already
OtherTranscript ==
    /\ pc = "verify_entry"
    /\ tamper = "none"
    /\ transcript' = write_point(transcript, vin.generator_h)
    /\ tamper' = "transcript"
    /\ UNCHANGED <<inp, rng, oracle, pv, proof, vin, vv, pc, err, ops,
                   chal_log, p_log>>

\* the witness of main() in weighted_inner_product.rs
MainWitnessSingle == [a |-> <<2, 3, 2, 2>>, b |-> <<<<1, 2, 1, 1>>>>, alpha |-> 5]

\* the witness of main() in modified_wip.rs, its first two rows and columns
MainWitnessMulti == [a |-> <<2, 3>>, b |-> <<<<1, 0>>, <<0, 1>>>>, alpha |-> 5]

\* main() of either file, and small calls read off a witness tape
InitAdv ==
    \E seed \in 0 .. MaxRngSeed :
        \/ InitWith(SingleShape(4), MainWitnessSingle, "PointGood", seed)
        \/ InitWith(MultiShape(2, 2), MainWitnessMulti, "PointGood", seed)
        \/ \E sh \in {SingleShape(1), SingleShape(2)}, ws \in 0 .. MaxWitSeed :
                InitWith(sh, TapeWitness(sh, ws), "PointGood", seed)

NextAdv ==
    \/ Next
    \/ TamperScalar
    \/ FlipGenerator
    \/ ResizeInputs
    \/ OtherTranscript

SpecAdv == InitAdv /\ [][NextAdv]_vars

\* =================================================================== claims
\* ------------------------------------------------------- shared vocabulary
RECURSIVE CommitLoop(_, _, _, _)
\* main(): for i in 0..n { commit += points[i] * scalars[i] }
CommitLoop(commit, points, scalars, i) ==
    IF i > Len(scalars) THEN commit
    ELSE CommitLoop(GAdd(commit, GMul(points[i], scalars[i])), points, scalars, i + 1)

RECURSIVE CommitRows(_, _, _, _)
\* main(): the same over every row of b and gens_h
CommitRows(commit, hrows, brows, r) ==
    IF r > Len(brows) THEN commit
    ELSE CommitRows(CommitLoop(commit, hrows[r], brows[r], 1), hrows, brows, r + 1)

\* main(): commit, the opening sum of the witness against the generators
Commit(w, g) ==
    LET c1 == CommitLoop(Identity(DimOf(g)), g.generators_g, w.a, 1)
        c2 == CommitRows(c1, g.generators_h, w.b, 1)
        ip == [r \in 1 .. Len(w.b) |-> inner_product(w.a, w.b[r])]
        c3 == CommitLoop(c2, g.generator_g, ip, 1)
    IN  GAdd(c3, GMul(g.generator_h, w.alpha))

IsPow2(n) == \E j \in 0 .. n : Pow2(j) = n

\* the lengths of a call agree, row counts included
LengthsAgree(i) ==
    /\ Len(i.generators_g) = Len(i.witness.a)
    /\ \A r \in 1 .. Len(i.witness.b) : Len(i.witness.b[r]) = Len(i.witness.a)
    /\ \A r \in 1 .. Len(i.generators_h) : Len(i.generators_h[r]) = Len(i.witness.a)
    /\ Len(i.witness.b) = Len(i.generators_h)
    /\ Len(i.witness.b) = Len(i.generator_g)

\* a well-formed call of power-of-two length whose p is the opening sum
Honest(i) ==
    /\ LengthsAgree(i)
    /\ Len(i.witness.a) >= 1
    /\ IsPow2(Len(i.witness.a))
    /\ multiexp(i.p, DimOf(i)) = Commit(i.witness, i)

VerifyStarted == pc \in {"verify_rounds", "verify_returned", "verify_panic"}

VerifyEnded == pc \in {"verify_returned", "verify_panic"}

Accepted == pc = "verify_returned" /\ vv.result = Identity(DimOf(vin))

Rejected == pc = "verify_panic" /\ err = "verification_failed"

\* C1. Completeness: on a well-formed witness of power-of-two length, with p
\* the opening sum and the prover's challenges replayed, verify never fails:
\* once it ends it has accepted, its multiexponentiation being the identity,
\* in the single-row and in the multi-row variant.
C1_Completeness ==
    (Honest(inp) /\ tamper = "none")
        => /\ pc # "verify_panic"
           /\ (VerifyEnded => Accepted)
           /\ (VerifyStarted => \A j \in 1 .. Len(chal_log) : chal_log[j] = p_log.chal[j])

\* a multi-row proof of two rows and two rounds, one challenge not its own inverse, accepted
C1_Witness ==
    /\ Honest(inp) /\ tamper = "none" /\ Accepted
    /\ inp.variant = "multi" /\ Len(inp.witness.b) = 2
    /\ Len(vin.proof.L) = 2
    /\ chal_log[1] = 2

ScalarTampers == {"r_answer", "s_answer", "delta_answer"}

GeneratorFlips == {"flip_g_bold", "flip_h_bold", "flip_generator_g", "flip_generator_h"}

\* verify's final equation on proof pr, with the generators, p and challenges of the running call
EquationHolds(pr) ==
    LET i == [vin EXCEPT !.proof = pr]
    IN  /\ verify_index_ok(inp.variant, i, vv.product_cache)
        /\ multiexp(PTerms(multiexp_var_of(inp.variant, i, vv.P_terms, vv.product_cache,
                                           chal_log[Len(chal_log)])), DimOf(i))
             = Identity(DimOf(i))

\* the proofs differ in exactly one response scalar and in nothing else
OneScalarDiffers(x, y) ==
    /\ x.L = y.L /\ x.R = y.R /\ x.A = y.A /\ x.B = y.B
    /\ Len(x.s_answer) = Len(y.s_answer)
    /\ Cardinality({k \in 1 .. Len(x.s_answer) : x.s_answer[k] # y.s_answer[k]})
         + (IF x.r_answer # y.r_answer THEN 1 ELSE 0)
         + (IF x.delta_answer # y.delta_answer THEN 1 ELSE 0) = 1

\* C2. Soundness under scalar tampering: when one response scalar (r_answer,
\* one s_answer entry or delta_answer) of a proof is replaced by another field
\* value, L, R, A, B stay, so verify squeezes the challenges the prover did;
\* and if the original proof satisfies verify's equation with them (verify
\* accepts it), verify on the changed proof fails its final assertion.
C2_ScalarTamperRejected ==
    (tamper \in ScalarTampers /\ VerifyEnded)
        => /\ OneScalarDiffers(vin.proof, proof)
           /\ chal_log = p_log.chal
           /\ vv.result # <<>>
           /\ (EquationHolds(proof) => Rejected)

\* an accepted two-row proof, one s_answer entry replaced, rejected
C2_Witness ==
    /\ tamper = "s_answer" /\ VerifyEnded /\ inp.variant = "multi"
    /\ EquationHolds(proof) /\ Rejected
    /\ Len(vin.proof.L) = 1

\* the end-to-end scenario: a = [2,3,2,2], b = [1,2,1,1], alpha = 5, four
\* independent generators per vector, p the opening sum as a point
EndToEnd ==
    /\ inp.variant = "single"
    /\ inp.witness = MainWitnessSingle
    /\ inp.generators_g = GensOf(SingleShape(4)).generators_g
    /\ inp.generators_h = GensOf(SingleShape(4)).generators_h
    /\ inp.p = PPoint(Commit(inp.witness, inp))

\* the response scalar that multiplies the flipped generator in verify's equation
FlippedScalar(pr) ==
    CASE tamper = "flip_g_bold"      -> pr.r_answer
      [] tamper = "flip_h_bold"      -> pr.s_answer[1]
      [] tamper = "flip_generator_g" -> FMul(pr.r_answer, pr.s_answer[1])
      [] tamper = "flip_generator_h" -> pr.delta_answer
      [] OTHER                       -> 1

\* C3 as stated: in the end-to-end scenario prove then verify accepts, and
\* with the sign of any one generator flipped verify rejects, whatever the
\* blinding scalars and challenges.
C3_FlipAlwaysRejected ==
    (EndToEnd /\ VerifyEnded)
        => /\ (tamper = "none" => Accepted)
           /\ (tamper \in GeneratorFlips => Rejected)

\* C3 as amended: in the end-to-end scenario prove then verify accepts; with
\* the sign of one generator flipped verify rejects exactly when the response
\* scalar multiplying that generator is not zero (r_answer for g_bold,
\* s_answer for h_bold, r_answer * s_answer for generator_g, delta_answer for
\* generator_h), and accepts when it is zero.
C3_FlipRejectedUnlessZero ==
    (EndToEnd /\ VerifyEnded)
        => /\ (tamper = "none" => Accepted)
           /\ (tamper \in GeneratorFlips =>
                 /\ chal_log = p_log.chal
                 /\ (FlippedScalar(proof) # 0 => Rejected)
                 /\ (FlippedScalar(proof) = 0 => Accepted))

\* the end-to-end proof, an h_bold generator flipped, rejected
C3_Witness ==
    /\ EndToEnd /\ tamper = "flip_h_bold" /\ Rejected
    /\ FlippedScalar(proof) # 0
    /\ Len(vin.proof.L) = 2

\* how many times the operation was performed in the running call
CountOps(name) == Cardinality({k \in 1 .. Len(ops) : ops[k] = name})

ZeroAbort == err = "zero_challenge"

\* the zero challenge is the last one squeezed, and the squeeze is the last operation
StoppedAtZeroSqueeze ==
    /\ Len(chal_log) >= 1
    /\ chal_log[Len(chal_log)] = 0
    /\ \A j \in 1 .. Len(chal_log) - 1 : chal_log[j] # 0
    /\ Len(ops) >= 1
    /\ ops[Len(ops)] = "squeeze"

\* prove stopped before inverting the challenge, folding, or producing a proof
ProveStoppedAtZero ==
    /\ StoppedAtZeroSqueeze
    /\ proof = NoProof
    /\ pv.rounds = Len(chal_log) - 1
    /\ CountOps("invert") = Len(chal_log) - 1
    /\ CountOps("fold") = Len(chal_log) - 1

\* every squeezed zero ends the call with the zero-challenge error
ZeroAlwaysAborts ==
    \A j \in 1 .. Len(chal_log) :
        chal_log[j] = 0 => /\ j = Len(chal_log)
                           /\ ZeroAbort
                           /\ pc \in {"prove_panic", "verify_panic"}

\* C4 as stated: a zero challenge in a folding round or in the final (A, B)
\* round makes prove abort at that squeeze before inverting, folding or
\* producing a proof, and makes verify abort at that squeeze before batch
\* inversion and before any accept/reject decision; no later round follows.
C4_ZeroAbortsBeforeBatchInversion ==
    /\ ZeroAlwaysAborts
    /\ (ZeroAbort /\ pc = "prove_panic" => ProveStoppedAtZero)
    /\ (ZeroAbort /\ pc = "verify_panic"
          => /\ StoppedAtZeroSqueeze
             /\ CountOps("batch_invert") = 0
             /\ CountOps("multiexp") = 0
             /\ vv.result = <<>>)

\* C4 as amended: a zero challenge makes prove abort at that squeeze before
\* inverting, folding or producing a proof, and makes verify abort at that
\* squeeze before any accept/reject decision; verify has not run the batch
\* inversion when the zero is a folding-round challenge, and has already run
\* it (and built the product table) when the zero is the final (A, B)
\* challenge; no later round follows.
C4_ZeroAbortsAtSqueeze ==
    /\ ZeroAlwaysAborts
    /\ (ZeroAbort /\ pc = "prove_panic" => ProveStoppedAtZero)
    /\ (ZeroAbort /\ pc = "verify_panic"
          => /\ StoppedAtZeroSqueeze
             /\ CountOps("multiexp") = 0
             /\ vv.result = <<>>
             /\ IF Len(chal_log) <= Len(vin.proof.L)
                THEN CountOps("batch_invert") = 0 /\ CountOps("challenge_products") = 0
                ELSE CountOps("batch_invert") = 1 /\ CountOps("challenge_products") = 1)

\* verify squeezed zero for (A, B) after two folding rounds
C4_Witness ==
    /\ ZeroAbort /\ pc = "verify_panic"
    /\ Len(vin.proof.L) = 2
    /\ Len(chal_log) = 3
    /\ CountOps("batch_invert") = 1

\* verify's preconditions held and no squeezed challenge was zero
VerifyReachedDecision ==
    /\ VerifyEnded
    /\ err \notin {"lr_length", "index_out_of_bounds", "zero_challenge"}
    /\ vv.result # <<>>

\* C5 as stated: when the preconditions hold and all challenges are non-zero,
\* verify returns to its caller whatever the final multiexponentiation is; it
\* does not end in an abort when the multiexponentiation is not the identity.
C5_RejectIsReturned ==
    VerifyReachedDecision
        => /\ pc = "verify_returned"
           /\ err = "none"

\* a call whose lengths agree, of a length that is not a power of two, with p the opening sum
OddCall ==
    /\ LengthsAgree(inp)
    /\ Len(inp.witness.a) >= 1
    /\ ~ IsPow2(Len(inp.witness.a))
    /\ multiexp(inp.p, DimOf(inp)) = Commit(inp.witness, inp)

RECURSIVE HalvingsToOdd(_)
\* how often n halves evenly before it is odd
HalvingsToOdd(n) == IF n % 2 = 1 \/ n = 0 THEN 0 ELSE 1 + HalvingsToOdd(n \div 2)

\* the split of the working vector a puts the extra element in the left half
ExtraGoesLeft ==
    LET h == split_vector_in_half(pv.a)
    IN  /\ Len(h[1]) = (Len(pv.a) + 1) \div 2
        /\ Len(h[2]) = Len(pv.a) \div 2
        /\ h[1] \o h[2] = pv.a

\* C6 as stated: prove on a well-formed witness and generators of length
\* n = 3 does not fail on the split; it completes in two folding rounds and
\* returns a proof with |L| = |R| = 2.
C6_OddLengthCompletes ==
    (OddCall /\ Len(inp.witness.a) = 3)
        => /\ ~ (pc = "prove_panic" /\ err = "dimension_mismatch")
           /\ (pc = "proved" => Len(proof.L) = 2 /\ Len(proof.R) = 2)

\* C6 as amended: for n not a power of two the split routes the extra element
\* to the left half, the halves then differ in length, and prove aborts on its
\* n_hat assertions at the first odd working length above one, before L and
\* R of that round: it never returns a proof. For n = 3 that is the first
\* round, with nothing written to the transcript; n = 6 folds once to 3.
C6_OddLengthAborts ==
    OddCall
        => /\ pc \in {"prove_entry", "prove_loop", "prove_panic"}
           /\ proof = NoProof
           /\ (pc = "prove_loop"
                 => /\ ExtraGoesLeft
                    /\ Len(pv.g_bold) * Pow2(pv.rounds) = Len(inp.witness.a))
           /\ (pc = "prove_panic" => err \in {"dimension_mismatch", "zero_challenge"})
           /\ (pc = "prove_panic" /\ err = "dimension_mismatch"
                 => /\ pv.rounds = HalvingsToOdd(Len(inp.witness.a))
                    /\ Len(pv.g_bold) * Pow2(pv.rounds) = Len(inp.witness.a)
                    /\ Len(pv.g_bold) % 2 = 1
                    /\ ExtraGoesLeft
                    /\ Len(pv.L_vec) = pv.rounds /\ Len(pv.R_vec) = pv.rounds
                    /\ Len(chal_log) = pv.rounds
                    /\ Len(transcript) = 3 * pv.rounds)

\* prove on n = 3 has aborted in its first round
C6_Witness ==
    /\ OddCall /\ Len(inp.witness.a) = 3
    /\ pc = "prove_panic" /\ err = "dimension_mismatch"
    /\ pv.rounds = 0 /\ Len(pv.g_bold) = 3
    /\ transcript = <<>>

\* verify has built the table of a proof of two rounds
TwoRoundTable == Len(vv.challenges) = 2 /\ vv.product_cache # <<>>

\* C7 as stated: for two rounds with pairs (e0, inv_e0), (e1, inv_e1) the
\* table is [inv_e0*inv_e1, e0*inv_e1, inv_e0*e1, e0*e1], slots 0 to 3.
C7_TableLowBitFirst ==
    TwoRoundTable
        => LET c == vv.challenges
           IN  challenge_products(c) =
                 <<FMul(c[1][2], c[2][2]), FMul(c[1][1], c[2][2]),
                   FMul(c[1][2], c[2][1]), FMul(c[1][1], c[2][1])>>

\* C7 as amended: for two rounds with pairs (e0, inv_e0), (e1, inv_e1) the
\* table is [inv_e0*inv_e1, inv_e0*e1, e0*inv_e1, e0*e1], slots 0 to 3: the
\* first round's challenge decides the high bit of the slot index.
C7_TableHighBitFirst ==
    TwoRoundTable
        => LET c == vv.challenges
           IN  /\ vv.product_cache = challenge_products(c)
               /\ c[1][2] = FInvert(c[1][1]) /\ c[2][2] = FInvert(c[2][1])
               /\ challenge_products(c) =
                    <<FMul(c[1][2], c[2][2]), FMul(c[1][2], c[2][1]),
                      FMul(c[1][1], c[2][2]), FMul(c[1][1], c[2][1])>>

\* a two-round table whose middle slots differ
C7_Witness ==
    /\ TwoRoundTable
    /\ vv.product_cache[2] # vv.product_cache[3]
    /\ Accepted

\* the least k with 2^k >= n
CeilLog2(n) == CHOOSE k \in 0 .. n : Pow2(k) >= n /\ (k = 0 \/ Pow2(k - 1) < n)

\* the proof has ceil(log2(generators_g.len())) entries in L and in R, and
\* generators_g.len() is 2^(round count)
PreconditionsHold(i) ==
    /\ Len(i.generators_g) >= 1
    /\ Len(i.proof.L) = CeilLog2(Len(i.generators_g))
    /\ Len(i.proof.R) = CeilLog2(Len(i.generators_g))
    /\ Len(i.generators_g) = Pow2(Len(i.proof.L))

\* C8. Verifier preconditions: when proof.L or proof.R does not have exactly
\* ceil(log2(generators_g.len())) entries, or generators_g.len() is not
\* 2^(round count), verify fails at entry, before it writes to the transcript
\* or squeezes a challenge; when they hold it does not fail at entry.
C8_RefusedAtEntry ==
    VerifyStarted
        => IF PreconditionsHold(vin)
           THEN err # "lr_length"
           ELSE /\ pc = "verify_panic" /\ err = "lr_length"
                /\ transcript = <<>> /\ chal_log = <<>> /\ ops = <<>>
                /\ vv = NoVerifyLocals

\* three generators with two (L, R) pairs, refused
C8_Witness ==
    /\ pc = "verify_panic" /\ err = "lr_length"
    /\ Len(vin.generators_g) = 3
    /\ Len(vin.proof.L) = 2 /\ Len(vin.proof.R) = 2

\* the lengths of a, of every row of b, of g_bold and of every row of h_bold agree
EntryLengthsAgree(i) ==
    /\ Len(i.generators_g) = Len(i.witness.a)
    /\ \A r \in 1 .. Len(i.witness.b) : Len(i.witness.b[r]) = Len(i.witness.a)
    /\ \A r \in 1 .. Len(i.generators_h) : Len(i.generators_h[r]) = Len(i.witness.a)

\* C9 as stated: when the lengths of a, a row of b, g_bold or a row of h_bold
\* disagree at entry, prove fails with the dimension-mismatch failure before
\* any multiexponentiation, transcript write or squeeze, whether P is a point
\* or a term list.
C9_MismatchReportedFirst ==
    (~ EntryLengthsAgree(inp) /\ pc # "prove_entry")
        => /\ pc \in {"prove_loop", "prove_panic"}
           /\ (pc = "prove_panic" => err = "dimension_mismatch")
           /\ ops = <<>> /\ transcript = <<>> /\ chal_log = <<>>

\* the transcript operations among the operations of a call
RECURSIVE TranscriptOps(_)
TranscriptOps(o) ==
    IF o = <<>> THEN <<>>
    ELSE (IF Head(o) \in {"write_point", "squeeze"} THEN <<Head(o)>> ELSE <<>>)
           \o TranscriptOps(Tail(o))

\* write L_j, write R_j, squeeze for each round in order; then write A, write B, squeeze
ReplaySequence(pr) ==
    Flatten([j \in 1 .. Len(pr.L) |->
               <<<<"point", pr.L[j]>>, <<"point", pr.R[j]>>, <<"squeeze", <<>>>>>>])
      \o <<<<"point", pr.A>>, <<"point", pr.B>>, <<"squeeze", <<>>>>>>

IsPrefix(x, y) == Len(x) <= Len(y) /\ SubSeq(y, 1, Len(x)) = x

\* C10. Transcript replay: on a proof prove produced, from a fresh transcript,
\* verify performs the transcript operations prove performed, in the same
\* order (write L_j, write R_j, squeeze for each round, then write A, write
\* B, squeeze) and obtains in every round the challenge prove obtained.
C10_TranscriptReplay ==
    (tamper = "none" /\ VerifyStarted)
        => /\ IsPrefix(transcript, p_log.transcript)
           /\ IsPrefix(chal_log, p_log.chal)
           /\ IsPrefix(TranscriptOps(ops), TranscriptOps(p_log.ops))
           /\ p_log.transcript = ReplaySequence(vin.proof)
           /\ (VerifyEnded => /\ transcript = p_log.transcript
                              /\ chal_log = p_log.chal
                              /\ TranscriptOps(ops) = TranscriptOps(p_log.ops))

\* verify has replayed a transcript of two rounds
C10_Witness ==
    /\ tamper = "none" /\ pc = "verify_returned"
    /\ Len(vin.proof.L) = 2
    /\ Len(transcript) = 9
    /\ transcript = p_log.transcript

\* ------------------------------------------------------ prove, run twice
\* the tape state before x
RngPrev(x) == CHOOSE y \in Fq : RngNext(y) = x

RECURSIVE RngRewind(_, _)
\* the tape cnt calls of Fq::random before x
RngRewind(x, cnt) == IF cnt = 0 THEN x ELSE RngRewind(RngPrev(x), cnt - 1)

\* a caller keeps the proof (in vin.proof) and the transcript of a first run
\* and calls prove again: the same witness, generators and p, a fresh
\* transcript, and OsRng giving the blinding scalars it gave the first time
ProveAgain ==
    /\ pc = "proved"
    /\ p_log = NoLog
    /\ p_log' = [transcript |-> transcript, chal |-> chal_log, ops |-> ops]
    /\ vin' = [NoVerifyInput EXCEPT !.proof = proof]
    /\ rng' = RngRewind(rng, CountOps("random"))
    /\ transcript' = <<>>
    /\ ops' = <<>>
    /\ chal_log' = <<>>
    /\ pv' = NoLocals
    /\ proof' = NoProof
    /\ pc' = "prove_entry"
    /\ UNCHANGED <<inp, oracle, vv, err, tamper>>

NextTwice ==
    \/ ProveEntry
    \/ ProveRound
    \/ ProveFinal
    \/ ProveAgain

SpecTwice == Init /\ [][NextTwice]_vars

\* the second run of prove is under way or over
SecondRun == p_log # NoLog

OneRowShapes ==
    {SingleShape(Pow2(j)) : j \in 0 .. MaxLogN}
      \cup {MultiShape(1, Pow2(j)) : j \in 0 .. MaxLogN}
      \cup {Shape(v, 2, 2, 2, 4, 1, 1, 1) : v \in {"single", "multi"}}
      \cup {Shape(v, 2, 2, 1, 2, 1, 1, 1) : v \in {"single", "multi"}}

InitRows ==
    \E sh \in OneRowShapes, ws \in 0 .. MaxWitSeed, kind \in PKinds, seed \in 0 .. MaxRngSeed :
        InitWith(sh, TapeWitness(sh, ws), kind, seed)

\* the caller hands verify rows of generators_h of another length than generators_g
ResizeGeneratorsH ==
    /\ pc = "verify_entry"
    /\ tamper = "none"
    /\ \E dh \in {-1, 1} :
        vin' = [vin EXCEPT !.generators_h =
                  [r \in 1 .. Len(@) |-> Resized(@[r], dh, vin.generator_h)]]
    /\ tamper' = "h_lengths"
    /\ UNCHANGED <<inp, rng, transcript, oracle, pv, proof, vv, pc, err, ops,
                   chal_log, p_log>>

NextRows ==
    \/ Next
    \/ ResizeGeneratorsH

SpecRows == InitRows /\ [][NextRows]_vars

\* the arguments of a call, handed to the other implementation
WithVariant(i, v) == [i EXCEPT !.variant = v]

\* the call has one weight row: b = [b0], h_bold = [h0], generator_g = [G]
OneRow ==
    /\ Len(inp.witness.b) = 1
    /\ Len(inp.generators_h) = 1
    /\ Len(inp.generator_g) = 1

\* from the state prove is in, both implementations take the same step: the
\* same outcome of the entry checks, the same L and R, the same A and B (the
\* folds and the answers are the same expressions in both)
ProveStepsAgree ==
    LET one == WithVariant(inp, "single")
        many == WithVariant(inp, "multi")
        s == SplitAll(pv)
        bl == FinalBlinds(rng, pv)
        d == DimOf(inp)
    IN  /\ (pc = "prove_entry" => ProveEntryOutcome(one) = ProveEntryOutcome(many))
        /\ (pc = "prove_loop" /\ Len(pv.g_bold) > 1 /\ halves_ok(s)
              => /\ multiexp(PTerms(L_terms(s, Random(rng, 1), one)), d)
                      = multiexp(PTerms(L_terms(s, Random(rng, 1), many)), d)
                 /\ multiexp(PTerms(R_terms(s, Random(rng, 2), one)), d)
                      = multiexp(PTerms(R_terms(s, Random(rng, 2), many)), d))
        /\ (pc = "prove_loop" /\ Len(pv.g_bold) <= 1 /\ final_lengths_ok(pv)
              => /\ multiexp(PTerms(A_terms(pv, bl, one)), d)
                      = multiexp(PTerms(A_terms(pv, bl, many)), d)
                 /\ multiexp(PTerms(B_terms(pv, bl, one)), d)
                      = multiexp(PTerms(B_terms(pv, bl, many)), d))

\* verify has squeezed its last challenge, a non-zero one
VerifyDecides ==
    /\ VerifyEnded
    /\ err \notin {"lr_length", "zero_challenge"}
    /\ Len(vin.generators_h) = 1 /\ Len(vin.generator_g) = 1

\* how the implementation of the variant ends verify on the running call
VerdictOf(variant) ==
    VerifyVerdict(variant, vin, vv.P_terms, vv.product_cache, chal_log[Len(chal_log)]).pc

\* C12 as stated: with one weight row both implementations take the same
\* steps in prove (the same entry outcome, L, R, A and B, hence the same
\* proof for equal blinding scalars and challenges), and verify accepts in
\* one exactly when it accepts in the other.
C12_OneRowAlwaysAgrees ==
    OneRow
        => /\ ProveStepsAgree
           /\ (VerifyDecides => VerdictOf("single") = VerdictOf("multi"))

\* What does hold with one weight row: both implementations take the same
\* steps in prove, and verify ends the same way in both when generators_h
\* has as many entries as generators_g. With more entries the single-row
\* verify ignores the surplus and the multi-row verify indexes the product
\* table out of bounds; with fewer the single-row verify indexes
\* generators_h out of bounds.
OneRowAgreesOnEqualLengths ==
    OneRow
        => /\ ProveStepsAgree
           /\ (VerifyDecides
                 => /\ (Len(vin.generators_h[1]) = Len(vin.generators_g)
                          => /\ VerdictOf("single") = VerdictOf("multi")
                             /\ pc = VerdictOf(inp.variant))
                    /\ (Len(vin.generators_h[1]) > Len(vin.generators_g)
                          => /\ VerdictOf("multi") = "verify_panic"
                             /\ (tamper = "h_lengths" /\ Honest(inp)
                                   => VerdictOf("single") = "verify_returned"))
                    /\ (Len(vin.generators_h[1]) < Len(vin.generators_g)
                          => VerdictOf("single") = "verify_panic"))

\* ------------------------------------------------------ multiexp, called alone
\* longest term list handed to multiexp
MaxTerms == 2

\* points of a group spanned by two independent generators
SomePoints == {Identity(2), Unit(2, 1), Unit(2, 2), GAdd(Unit(2, 1), Unit(2, 2))}

RECURSIVE TermLists(_)
\* the lists of at most n (scalar, point) terms
TermLists(n) ==
    IF n = 0 THEN {<<>>}
    ELSE TermLists(n - 1)
           \cup {Append(v, <<x, pt>>) : v \in {w \in TermLists(n - 1) : Len(w) = n - 1},
                                        x \in Fq, pt \in SomePoints}

\* a caller holds a P (kept in vin.p) and is about to call multiexp(&p)
InitMultiexp ==
    /\ \E p \in {PPoint(pt) : pt \in SomePoints} \cup {PTerms(v) : v \in TermLists(MaxTerms)} :
        /\ inp = [p |-> p]
        /\ vin = [NoVerifyInput EXCEPT !.p = p]
    /\ rng = 0
    /\ transcript = <<>>
    /\ oracle = {}
    /\ pv = NoLocals
    /\ proof = NoProof
    /\ vv = NoVerifyLocals
    /\ pc = "multiexp_entry"
    /\ err = "none"
    /\ ops = <<>>
    /\ chal_log = <<>>
    /\ p_log = NoLog
    /\ tamper = "none"

\* multiexp(&p) returns
CallMultiexp ==
    /\ pc = "multiexp_entry"
    /\ pc' = "multiexp_returned"
    /\ vv' = [vv EXCEPT !.result = multiexp(inp.p, 2)]
    /\ ops' = Append(ops, "multiexp")
    /\ UNCHANGED <<inp, rng, transcript, oracle, pv, proof, vin, err, chal_log,
                   p_log, tamper>>

NextMultiexp == CallMultiexp

SpecMultiexp == InitMultiexp /\ [][NextMultiexp]_vars

RECURSIVE CoordSum(_, _, _)
\* the i-th coefficient of the sum of scalar * point over the first n terms of v
CoordSum(v, i, n) ==
    IF n = 0 THEN 0 ELSE (CoordSum(v, i, n - 1) + (v[n][1] * v[n][2][i])) % Q

\* the sum of scalar * point over all entries of v, coefficient by coefficient
WeightedSum(v, d) == [i \in 1 .. d |-> CoordSum(v, i, Len(v))]

RECURSIVE ScalarSum(_)
ScalarSum(v) == IF v = <<>> THEN 0 ELSE (Head(v)[1] + ScalarSum(Tail(v))) % Q

RECURSIVE WithoutZeroScalars(_)
\* v without the entries whose scalar is zero
WithoutZeroScalars(v) ==
    IF v = <<>> THEN <<>>
    ELSE (IF Head(v)[1] = 0 THEN <<>> ELSE <<Head(v)>>) \o WithoutZeroScalars(Tail(v))

\* C13. multiexp equals the reference weighted sum: an opaque point comes
\* back unchanged; a term list gives the sum of scalar * point over all its
\* entries, the identity for the empty list, a point that occurs several
\* times counted once per occurrence, entries with scalar zero changing
\* nothing; and the argument is as the caller handed it.
C13_MultiexpIsWeightedSum ==
    pc = "multiexp_returned"
        => /\ inp.p = vin.p
           /\ (inp.p.kind = "Point" => vv.result = inp.p.point)
           /\ (inp.p.kind = "Terms"
                 => LET v == inp.p.terms
                    IN  /\ vv.result = WeightedSum(v, 2)
                        /\ (v = <<>> => vv.result = Identity(2))
                        /\ ((\A k \in 1 .. Len(v) : v[k][2] = v[1][2]) /\ v # <<>>
                              => vv.result = GMul(v[1][2], ScalarSum(v)))
                        /\ vv.result = WeightedSum(WithoutZeroScalars(v), 2))

\* the same point twice, and the sum counts it twice
C13_Witness ==
    /\ pc = "multiexp_returned"
    /\ inp.p.kind = "Terms" /\ Len(inp.p.terms) = 2
    /\ inp.p.terms[1][2] = inp.p.terms[2][2]
    /\ inp.p.terms[1][1] = 2 /\ inp.p.terms[2][1] = 3
    /\ vv.result = GMul(inp.p.terms[1][2], 5)
    /\ vv.result # Identity(2)

RECURSIVE Pow(_, _)
\* x^n by repeated multiplication
Pow(x, n) == IF n = 0 THEN 1 ELSE (x * Pow(x, n - 1)) % Q

\* the inverse of a non-zero x, computed on its own: x^(Q - 2)
InverseOf(x) == Pow(x, Q - 2)

RECURSIVE NonzeroLists(_)
\* the lists of n non-zero scalars
NonzeroLists(n) ==
    IF n = 0 THEN {<<>>}
    ELSE {Append(v, x) : v \in NonzeroLists(n - 1), x \in 1 .. (Q - 1)}

\* verify has inverted its round challenges
BatchInverted == VerifyEnded /\ vv.product_cache # <<>>

\* C14. Batch inversion in verify: the batch-inverted list of the non-zero
\* round challenges has their number of entries, its j-th entry is the
\* inverse of e_j computed on its own (e_j * inv_e_j = 1), and the pairs in
\* challenges are (e_j, e_j^-1) in round order; the same holds of every list
\* of non-zero scalars of that length.
C14_BatchInversion ==
    BatchInverted
        => /\ Len(vv.challenges) = Len(vin.proof.L)
           /\ Len(BatchInvert(vv.es)) = Len(vv.es)
           /\ \A j \in 1 .. Len(vv.challenges) :
                /\ vv.challenges[j][1] = chal_log[j]
                /\ vv.challenges[j][1] = vv.es[j]
                /\ vv.challenges[j][2] = BatchInvert(vv.es)[j]
                /\ vv.challenges[j][2] = InverseOf(vv.es[j])
                /\ (vv.challenges[j][1] * vv.challenges[j][2]) % Q = 1
           /\ \A es \in NonzeroLists(Len(vv.es)) :
                BatchInvert(es) = [j \in 1 .. Len(es) |-> InverseOf(es[j])]

\* two round challenges inverted, the first not its own inverse
C14_Witness ==
    /\ BatchInverted
    /\ Len(vv.challenges) = 2
    /\ vv.challenges[1] = <<2, 4>>
    /\ vv.challenges[2][1] * vv.challenges[2][2] % Q = 1

\* the multiexponentiation of the witness against the generators of a call
OpeningOf(i) == multiexp(PTerms(p_terms(i.variant, i.witness, i)), DimOf(i))

\* p is a point other than the opening of the witness
PointDiffers(i) ==
    /\ i.p.kind = "Point"
    /\ p_terms_ip_ok(i.variant, i.witness, i)
    /\ i.p.point # OpeningOf(i)

\* p is a term list that does not sum to the opening of the witness
TermsDoNotOpen(i) ==
    /\ i.p.kind = "Terms"
    /\ p_terms_ip_ok(i.variant, i.witness, i)
    /\ multiexp(i.p, DimOf(i)) # OpeningOf(i)

InProve == pc \in {"prove_entry", "prove_loop", "prove_panic"}

\* C15. Opening sanity check: when P is a point that differs from the
\* multiexponentiation of the witness against the generators, prove fails
\* before any transcript write and returns no proof; when P is a term list
\* the check is skipped (no multiexponentiation at entry, never the opening
\* failure), so that a well-formed call returns a proof even if the terms do
\* not open to the witness (a zero challenge aside).
C15_OpeningCheck ==
    /\ (PointDiffers(inp) /\ pc # "prove_entry")
          => /\ pc = "prove_panic" /\ err = "opening_mismatch"
             /\ transcript = <<>> /\ chal_log = <<>>
             /\ ops = <<"multiexp">>
             /\ proof = NoProof
    /\ inp.p.kind = "Terms"
          => /\ err # "opening_mismatch"
             /\ (InProve /\ ops # <<>> => ops[1] = "random")
    /\ (TermsDoNotOpen(inp) /\ LengthsAgree(inp) /\ IsPow2(Len(inp.witness.a)))
          => /\ (pc = "prove_panic" => err = "zero_challenge")
             /\ (~ InProve => /\ proof # NoProof
                              /\ Len(proof.L) = CeilLog2(Len(inp.witness.a))
                              /\ IsPrefix(<<"random">>,
                                          IF pc = "proved" THEN ops ELSE p_log.ops))

\* a point other than the opening of a witness of length four was refused
C15_Witness ==
    /\ PointDiffers(inp)
    /\ Len(inp.witness.a) = 4
    /\ LengthsAgree(inp)
    /\ pc = "prove_panic" /\ err = "opening_mismatch"
    /\ transcript = <<>>

\* the row counts of a call agree
RowsAgree(i) ==
    /\ Len(i.witness.b) = Len(i.generators_h)
    /\ Len(i.witness.b) = Len(i.generator_g)

\* C(a, b, alpha; g, h): the opening sum of working locals against the
\* working generators
OpeningSum(l) ==
    Commit([a |-> l.a, b |-> l.b, alpha |-> l.alpha],
           [generators_g |-> l.g_bold, generators_h |-> l.h_bold,
            generator_g |-> inp.generator_g, generator_h |-> inp.generator_h])

\* e^2 * L + e^-2 * R
RoundShift(e, L, R) ==
    GAdd(GMul(L, Pow(e, 2)), GMul(R, Pow(InverseOf(e), 2)))

RECURSIVE ShiftsUpTo(_, _, _, _)
\* the sum of the shifts of rounds 1..j
ShiftsUpTo(es, Ls, Rs, j) ==
    IF j = 0 THEN Identity(DimOf(inp))
    ELSE GAdd(ShiftsUpTo(es, Ls, Rs, j - 1), RoundShift(es[j], Ls[j], Rs[j]))

\* this step is a completed folding round
RoundFolded ==
    /\ pc = "prove_loop" /\ pc' = "prove_loop"
    /\ pv'.rounds = pv.rounds + 1

\* a completed round moves the opening sum by e^2 * L + e^-2 * R
FoldStep ==
    (RoundFolded /\ RowsAgree(inp))
        => LET e == chal_log'[Len(chal_log')]
               L == pv'.L_vec[Len(pv'.L_vec)]
               R == pv'.R_vec[Len(pv'.R_vec)]
           IN  /\ e # 0
               /\ Len(pv'.L_vec) = pv'.rounds /\ Len(pv'.R_vec) = pv'.rounds
               /\ OpeningSum(pv') = GAdd(OpeningSum(pv), RoundShift(e, L, R))

\* the opening sum after the rounds so far, from the one at entry
FoldedSoFar ==
    (pc = "prove_loop" /\ LengthsAgree(inp))
        => /\ OpeningSum(pv)
                = GAdd(Commit(inp.witness, inp),
                       ShiftsUpTo(chal_log, pv.L_vec, pv.R_vec, pv.rounds))
           /\ (multiexp(inp.p, DimOf(inp)) = Commit(inp.witness, inp)
                 => OpeningSum(pv)
                      = GAdd(multiexp(inp.p, DimOf(inp)),
                             ShiftsUpTo(chal_log, pv.L_vec, pv.R_vec, pv.rounds)))

\* C16. Folding round invariant: every round of prove with non-zero challenge e
\* takes the opening sum C of the working witness against the working
\* generators to C + e^2 * L + e^-2 * R for that round's L and R; so after all
\* rounds the length-1 opening equals P + sum_j (e_j^2 * L_j + e_j^-2 * R_j).
C16_FoldingRound == [][FoldStep]_vars /\ []FoldedSoFar

\* two rounds folded two weight rows of length four down to length one
C16_Witness ==
    /\ pc = "prove_loop"
    /\ Honest(inp)
    /\ inp.variant = "multi" /\ Len(inp.witness.b) = 2
    /\ pv.rounds = 2 /\ Len(pv.g_bold) = 1
    /\ chal_log = <<2, 1>>
    /\ RoundShift(chal_log[1], pv.L_vec[1], pv.R_vec[1]) # Identity(DimOf(inp))

\* a, g_bold and every row of b have one length
WitnessSideSameLength(l) ==
    /\ Len(l.g_bold) = Len(l.a)
    /\ \A r \in 1 .. Len(l.b) : Len(l.b[r]) = Len(l.a)

\* a, g_bold, every row of b and every row of h_bold have one length
AllSameLength(l) ==
    /\ WitnessSideSameLength(l)
    /\ \A r \in 1 .. Len(l.h_bold) : Len(l.h_bold[r]) = Len(l.a)

\* a completed round halves the length
Halved == RoundFolded => Len(pv.a) = 2 * Len(pv'.a)

\* the rows of h_bold handed to prove have the length of a
HRowsFit(i) == \A r \in 1 .. Len(i.generators_h) : Len(i.generators_h[r]) = Len(i.witness.a)

\* C17 as stated: at the start of prove's loop and after every completed
\* folding round a, g_bold, every row of b and every row of h_bold have the
\* same length, and a round halves that length.
C17_LengthsAgreeFromLoopStart ==
    [](pc = "prove_loop" => AllSameLength(pv)) /\ [][Halved]_vars

\* C17, amended: at the start of prove's loop a, g_bold and every row of b
\* have the same length, and so has every row of h_bold when the caller's rows
\* of h_bold have the length of a (prove's entry does not compare them);
\* after every completed folding round a, g_bold, every row of b and every
\* row of h_bold have the same length, half the length before the round.
C17_LengthsAgreeAfterRounds ==
    /\ [](pc = "prove_loop"
            => /\ WitnessSideSameLength(pv)
               /\ (pv.rounds >= 1 \/ HRowsFit(inp) => AllSameLength(pv)))
    /\ [][Halved /\ (RoundFolded => AllSameLength(pv) /\ AllSameLength(pv'))]_vars

\* one round folded two weight rows of length four to length two
C17_Witness ==
    /\ pc = "prove_loop"
    /\ pv.rounds = 1
    /\ Len(inp.witness.a) = 4 /\ Len(pv.a) = 2
    /\ inp.variant = "multi" /\ Len(pv.h_bold) = 2
    /\ AllSameLength(pv)

\* ------------------------------------ next_G_H and challenge_products alone
\* generators of power-of-two length, one row of h_bold or two
TableShapes ==
    {SingleShape(Pow2(j)) : j \in 0 .. MaxLogN}
      \cup {MultiShape(2, Pow2(j)) : j \in 0 .. MaxLogN}

\* generators as gens() draws them, about to be folded
InitTable ==
    /\ \E sh \in TableShapes :
         /\ inp = [variant |-> sh.variant, shape |-> sh,
                   generators_g |-> GensOf(sh).generators_g,
                   generators_h |-> GensOf(sh).generators_h,
                   generator_g  |-> GensOf(sh).generator_g,
                   generator_h  |-> GensOf(sh).generator_h]
         /\ pv = [NoLocals EXCEPT !.g_bold = GensOf(sh).generators_g,
                                  !.h_bold = GensOf(sh).generators_h]
    /\ rng = 0
    /\ transcript = <<>>
    /\ oracle = {}
    /\ proof = NoProof
    /\ vin = NoVerifyInput
    /\ vv = NoVerifyLocals
    /\ pc = "next_G_H"
    /\ err = "none"
    /\ ops = <<>>
    /\ chal_log = <<>>
    /\ p_log = NoLog
    /\ tamper = "none"

\* next_G_H on the halves of the working generators; the transcript may give
\* any scalar
CallNextGH ==
    /\ pc = "next_G_H"
    /\ Len(pv.g_bold) > 1
    /\ LET s == SplitAll(pv)
           d == DimOf(inp)
           t == transcript_pair(transcript, Identity(d), Identity(d))
       IN  IF ~ (/\ Len(s.g_bold1) = Len(s.g_bold2)
                 /\ \A r \in 1 .. Len(s.h_bold1) :
                      /\ Len(s.h_bold1[r]) = Len(s.h_bold2[r])
                      /\ Len(s.g_bold1) = Len(s.h_bold1[r]))
           THEN /\ pc' = "prove_panic"
                /\ err' = "dimension_mismatch"
                /\ UNCHANGED <<transcript, oracle, pv, ops, chal_log>>
           ELSE \E e \in Fq :
                /\ transcript' = squeezed(t)
                /\ oracle' = oracle \cup {<<t, e>>}
                /\ chal_log' = Append(chal_log, e)
                /\ IF is_zero(e)
                   THEN /\ pc' = "prove_panic"
                        /\ err' = "zero_challenge"
                        /\ ops' = ops \o <<"write_point", "write_point", "squeeze">>
                        /\ pv' = pv
                   ELSE /\ pc' = "next_G_H"
                        /\ err' = err
                        /\ ops' = ops \o <<"write_point", "write_point", "squeeze", "invert">>
                        /\ pv' = [pv EXCEPT
                                    !.g_bold = new_g_bold(s.g_bold1, s.g_bold2, e, FInvert(e), d),
                                    !.h_bold = new_h_bold(s.h_bold1, s.h_bold2, e, FInvert(e), d),
                                    !.rounds = @ + 1]
    /\ UNCHANGED <<inp, rng, proof, vin, vv, p_log, tamper>>

\* challenge_products on the pairs (e, inv_e) of the rounds, as verify builds them
CallChallengeProducts ==
    /\ pc = "next_G_H"
    /\ Len(pv.g_bold) <= 1
    /\ LET challenges == challenges_of(chal_log, BatchInvert(chal_log))
       IN  vv' = [vv EXCEPT !.es = chal_log,
                            !.challenges = challenges,
                            !.product_cache = challenge_products(challenges)]
    /\ pc' = "table_returned"
    /\ ops' = Append(ops, "challenge_products")
    /\ UNCHANGED <<inp, rng, transcript, oracle, pv, proof, vin, err, chal_log,
                   p_log, tamper>>

NextTable ==
    \/ CallNextGH
    \/ CallChallengeProducts

SpecTable == InitTable /\ [][NextTable]_vars

TableReturned == pc = "table_returned"

\* the entries of a sequence in the opposite order
Reversed(v) == [i \in 1 .. Len(v) |-> v[Len(v) + 1 - i]]

\* a proof whose answers are all one, for reading off the scalars verify
\* attaches to the generators
UnitAnswers ==
    [generators_g |-> inp.generators_g, generators_h |-> inp.generators_h,
     proof |-> [NoProof EXCEPT !.r_answer = 1,
                               !.s_answer = [r \in 1 .. Len(inp.generators_h) |-> 1]]]

\* C18. The challenge-product table matches the fold: for non-zero challenges
\* e_0..e_{m-1} the table T of size 2^m has, for every leaf i, T[i] the
\* coefficient of the original g_bold[i] in the one generator left after m
\* folding rounds (new g = inv_e*left + e*right) and T[2^m - 1 - i] the
\* coefficient of the original h_bold[i] after the opposite fold, which is the
\* index verify uses for column i of h_bold.
C18_TableMatchesFold ==
    TableReturned
        => LET T == vv.product_cache
               n == Len(inp.generators_g)
               d == DimOf(inp)
           IN  /\ Len(T) = Pow2(Len(chal_log))
               /\ n = Len(T)
               /\ pv.g_bold = <<CommitLoop(Identity(d), inp.generators_g, T, 1)>>
               /\ \A i \in 1 .. n : pv.g_bold[1][i] = T[i]
               /\ \A r \in 1 .. Len(inp.generators_h) :
                    /\ pv.h_bold[r]
                         = <<CommitLoop(Identity(d), inp.generators_h[r], Reversed(T), 1)>>
                    /\ \A i \in 1 .. n :
                         pv.h_bold[r][1][n + ((r - 1) * n) + i] = T[n + 1 - i]
               /\ \A i \in 1 .. n :
                    /\ g_bold_terms(UnitAnswers, T, 1)[i] = <<T[i], inp.generators_g[i]>>
                    /\ inp.variant = "single"
                         => h_bold_terms_single(UnitAnswers, T, 1)[i]
                              = <<T[n + 1 - i], inp.generators_h[1][i]>>
                    /\ inp.variant = "multi"
                         => \A r \in 1 .. Len(inp.generators_h) :
                              h_bold_terms_multi(UnitAnswers, T, 1)[((r - 1) * n) + i]
                                = <<T[n + 1 - i], inp.generators_h[r][i]>>

\* two rows of four generators folded twice, with challenges 2 and 3
C18_Witness ==
    /\ TableReturned
    /\ inp.variant = "multi"
    /\ chal_log = <<2, 3>>
    /\ Len(vv.product_cache) = 4
    /\ pv.g_bold[1][3] = vv.product_cache[3]

RECURSIVE ChoiceProducts(_, _)
\* the products of one entry of each of the first j pairs
ChoiceProducts(challenges, j) ==
    IF j = 0 THEN {1}
    ELSE {(x * challenges[j][k]) % Q : x \in ChoiceProducts(challenges, j - 1), k \in {1, 2}}

\* C19. No zero table entry: for challenge/inverse pairs whose challenges are
\* all non-zero, every one of the 2^m entries of the table returned by
\* challenge_products is non-zero; every slot is populated by the doubling
\* loop (it holds a product of one entry of every pair), and for m = 0 the
\* table is the single entry 1.
C19_NoZeroEntry ==
    TableReturned
        => LET T == vv.product_cache
               m == Len(vv.challenges)
           IN  /\ \A j \in 1 .. m : vv.challenges[j][1] # 0
               /\ Len(T) = Pow2(m)
               /\ \A i \in 1 .. Len(T) :
                    /\ T[i] # 0
                    /\ T[i] \in ChoiceProducts(vv.challenges, m)
               /\ products_nonzero(T)
               /\ (m = 0 => T = <<1>>)

\* a table of four entries from the challenges 3 and 2
C19_Witness ==
    /\ TableReturned
    /\ vv.challenges = <<<<3, 5>>, <<2, 4>>>>
    /\ Len(vv.product_cache) = 4
    /\ products_nonzero(vv.product_cache)

\* ------------------------------------------------- prove, run to its end
NextProve ==
    \/ ProveEntry
    \/ ProveRound
    \/ ProveFinal

\* prove has not returned or failed yet; a step of NextProve is enabled in
\* exactly these states
Running == pc \in {"prove_entry", "prove_loop"}

\* prove is sequential code, so a step that can be taken is taken: weak
\* fairness of NextProve, written out with Running for its enabling condition
ProveKeepsRunning == []<>(~ Running) \/ []<><<NextProve>>_vars

SpecProve == Init /\ [][NextProve]_vars /\ ProveKeepsRunning

\* a call with agreeing lengths, a power of two, that passes the opening check
WellFormedCall(i) ==
    /\ LengthsAgree(i)
    /\ Len(i.witness.a) >= 1
    /\ IsPow2(Len(i.witness.a))
    /\ ~ PointDiffers(i)

\* the rounds so far: one L and one R each, written to the transcript in
\* round order, each halving the working length
RoundsCounted ==
    (WellFormedCall(inp) /\ pc \in {"prove_loop", "proved"})
        => /\ Len(pv.L_vec) = pv.rounds /\ Len(pv.R_vec) = pv.rounds
           /\ \A j \in 1 .. pv.rounds : chal_log[j] # 0
           /\ Len(pv.a) * Pow2(pv.rounds) = Len(inp.witness.a)
           /\ \A j \in 1 .. pv.rounds :
                /\ transcript[(3 * j) - 2] = <<"point", pv.L_vec[j]>>
                /\ transcript[(3 * j) - 1] = <<"point", pv.R_vec[j]>>

\* the proof returned has log2(n) entries in L and in R, the number verify asks for
ProofCounted ==
    (WellFormedCall(inp) /\ pc = "proved")
        => /\ pv.rounds = CeilLog2(Len(inp.witness.a))
           /\ Pow2(pv.rounds) = Len(inp.witness.a)
           /\ proof.L = pv.L_vec /\ proof.R = pv.R_vec
           /\ Len(proof.L) = pv.rounds /\ Len(proof.R) = pv.rounds
           /\ Len(proof.L) = lr_len_of(inp.generators_g)
           /\ lr_lengths_ok([proof |-> proof, generators_g |-> inp.generators_g])

\* a round appends one L and one R behind the earlier ones
AppendedInOrder ==
    RoundFolded
        => /\ Len(pv'.L_vec) = Len(pv.L_vec) + 1 /\ IsPrefix(pv.L_vec, pv'.L_vec)
           /\ Len(pv'.R_vec) = Len(pv.R_vec) + 1 /\ IsPrefix(pv.R_vec, pv'.R_vec)

ProveReturned == pc = "proved"

\* C20. Termination and round count: for a well-formed input of power-of-two
\* length n >= 1 and non-zero challenges, prove's folding loop ends after
\* exactly log2(n) rounds, appends exactly one L and one R per round in round
\* order, and prove returns a proof with |L| = |R| = log2(n), the length
\* verify requires for n generators.
C20_TerminationAndRoundCount ==
    /\ []RoundsCounted
    /\ []ProofCounted
    /\ [][AppendedInOrder]_vars
    /\ (WellFormedCall(inp) ~> (ProveReturned \/ ZeroAbort))

\* prove returned after two rounds on two weight rows of length four
C20_Witness ==
    /\ ProveReturned
    /\ WellFormedCall(inp)
    /\ inp.variant = "multi"
    /\ Len(inp.witness.a) = 4
    /\ pv.rounds = 2
    /\ Len(proof.L) = 2 /\ Len(proof.R) = 2
    /\ proof.R[1] # proof.R[2]

\* ----------------------------------------- the multi-row prove, row counts
\* multi-row calls with one or two rows of b, rows of h_bold and entries of
\* generator_g, agreeing or not, of length one or two
RowCountShapes ==
    {Shape("multi", n, n, n, n, kb, kh, kG) : n \in {1, 2}, kb \in {1, 2}, kh \in {1, 2}, kG \in {1, 2}}

InitRowCounts ==
    \E sh \in RowCountShapes, ws \in 0 .. MaxWitSeed, kind \in PKinds, seed \in 0 .. MaxRngSeed :
        InitWith(sh, TapeWitness(sh, ws), kind, seed)

SpecRowCounts == InitRowCounts /\ [][NextProve]_vars

\* C21 as stated: the multi-row prove refuses to run (fails, returning no
\* proof) whenever the number of rows of b, the number of rows of h_bold and
\* the number of entries of generator_g are not all equal at its start.
C21_RowCountsRefused ==
    (inp.variant = "multi" /\ ~ RowsAgree(inp))
        => /\ pc # "proved"
           /\ proof = NoProof

\* a well-formed call of length one whose p is the opening sum
SingleElement == Honest(inp) /\ Len(inp.witness.a) = 1

\* C22. Single-element case: for n = 1 prove performs no folding round,
\* squeezes exactly one challenge (the one for A, B) and returns a proof with
\* empty L and empty R; verify accepts that proof for the matching P, with a
\* product table of the one entry 1.
C22_SingleElement ==
    SingleElement
        => /\ pv.rounds = 0 /\ pv.L_vec = <<>> /\ pv.R_vec = <<>>
           /\ (pc = "prove_loop" => transcript = <<>> /\ chal_log = <<>>)
           /\ (pc = "proved"
                 => /\ proof.L = <<>> /\ proof.R = <<>>
                    /\ Len(chal_log) = 1
                    /\ CountOps("squeeze") = 1
                    /\ CountOps("fold") = 0
                    /\ transcript = squeezed(transcript_pair(<<>>, proof.A, proof.B)))
           /\ (VerifyStarted
                 => /\ vin.proof = proof /\ vin.proof.L = <<>> /\ vin.proof.R = <<>>
                    /\ Len(p_log.chal) = 1)
           /\ (VerifyEnded
                 => /\ Accepted
                    /\ vv.challenges = <<>>
                    /\ vv.product_cache = <<1>>
                    /\ chal_log = p_log.chal)

\* verify accepted the proof of a call of length one with a non-zero a[0]
C22_Witness ==
    /\ SingleElement
    /\ Accepted
    /\ inp.witness.a[1] # 0
    /\ vin.proof.L = <<>> /\ vin.proof.R = <<>>
    /\ vv.product_cache = <<1>>
    /\ chal_log = <<2>>

\* ------------------------------------- multiexp on a list and a reordering
\* the orders of n entries
Orders(n) == {f \in [1 .. n -> 1 .. n] : \A j, k \in 1 .. n : f[j] = f[k] => j = k}

\* v with its entries in the order f
Reordered(v, f) == [k \in 1 .. Len(v) |-> v[f[k]]]

\* the halves prove splits a one-row witness of length two and its generators into
FirstSplit(ws) ==
    LET sh == SingleShape(2)
    IN  SplitAll([a |-> TapeWitness(sh, ws).a, b |-> TapeWitness(sh, ws).b,
                  g_bold |-> GensOf(sh).generators_g, h_bold |-> GensOf(sh).generators_h])

\* the term lists the two provers build for L and for R in that round: four
\* terms each
RoundTerms(from, variant, ws, d) ==
    LET g == GensOf(SingleShape(2)) @@ [variant |-> variant]
    IN  IF from = "L" THEN L_terms(FirstSplit(ws), d, g) ELSE R_terms(FirstSplit(ws), d, g)

\* a caller holds a term list (its own, or the L or R terms of the single-row
\* prove) and the same terms in another order
InitOrder ==
    /\ \/ \E v \in TermLists(MaxTerms), f \in Orders(MaxTerms) :
            /\ Len(v) = MaxTerms
            /\ inp = [from |-> "caller", terms |-> v, reordered |-> Reordered(v, f),
                      dim |-> 2, ws |-> 0, blind |-> 0]
       \/ \E from \in {"L", "R"}, ws \in 0 .. MaxWitSeed, d \in Fq, f \in Orders(4) :
            LET v == RoundTerms(from, "single", ws, d)
            IN  inp = [from |-> from, terms |-> v, reordered |-> Reordered(v, f),
                       dim |-> Dim(SingleShape(2)), ws |-> ws, blind |-> d]
    /\ rng = 0
    /\ transcript = <<>>
    /\ oracle = {}
    /\ pv = NoLocals
    /\ proof = NoProof
    /\ vin = NoVerifyInput
    /\ vv = NoVerifyLocals
    /\ pc = "multiexp_entry"
    /\ err = "none"
    /\ ops = <<>>
    /\ chal_log = <<>>
    /\ p_log = NoLog
    /\ tamper = "none"

\* multiexp on the list, then on the reordered list; vv.result keeps both
CallMultiexpTwice ==
    /\ pc = "multiexp_entry"
    /\ pc' = "multiexp_returned"
    /\ vv' = [vv EXCEPT !.result = <<multiexp(PTerms(inp.terms), inp.dim),
                                     multiexp(PTerms(inp.reordered), inp.dim)>>]
    /\ ops' = ops \o <<"multiexp", "multiexp">>
    /\ UNCHANGED <<inp, rng, transcript, oracle, pv, proof, vin, err, chal_log,
                   p_log, tamper>>

NextOrder == CallMultiexpTwice

SpecOrder == InitOrder /\ [][NextOrder]_vars

\* C23. Evaluation-order independence: multiexp returns the same group element
\* for a list of (scalar, point) terms and for every permutation of it;
\* the L and R term lists of the multi-row prove are permutations of those of
\* the single-row prove, and so give the same L and R.
C23_OrderIndependent ==
    pc = "multiexp_returned"
        => /\ vv.result[1] = vv.result[2]
           /\ inp.from \in {"L", "R"}
                => LET m == RoundTerms(inp.from, "multi", inp.ws, inp.blind)
                   IN  /\ \E f \in Orders(4) : Reordered(inp.terms, f) = m
                       /\ multiexp(PTerms(m), inp.dim) = vv.result[1]

\* the L terms of the single-row prove and, reordered, those of the multi-row
\* prove, in another order, were summed
C23_Witness ==
    /\ pc = "multiexp_returned"
    /\ inp.from = "L"
    /\ inp.reordered = RoundTerms("L", "multi", inp.ws, inp.blind)
    /\ inp.reordered # inp.terms
    /\ inp.terms[1][1] # 0
    /\ vv.result[1] # Identity(inp.dim)

\* verify came to its final assertion
VerifyDecided ==
    /\ VerifyEnded
    /\ err \in {"none", "verification_failed"}
    /\ vv.multiexp_var # <<>>

\* other ways to hand verify the statement p: the point its terms sum to, or
\* term lists that sum to its point
OtherRepresentations(p, i) ==
    LET pt == multiexp(p, DimOf(i))
    IN  IF p.kind = "Terms"
        THEN {PPoint(pt), PTerms(Reordered(p.terms, [k \in 1 .. Len(p.terms) |-> Len(p.terms) + 1 - k]))}
        ELSE {PTerms(<<<<1, pt>>>>),
              PTerms(<<<<2, pt>>, <<Q - 1, pt>>>>),
              PTerms(<<<<0, i.generator_h>>, <<1, pt>>>>),
              PTerms(<<<<1, GAdd(pt, i.generator_h)>>, <<Q - 1, i.generator_h>>>>)}

\* where verify ends on the same proof, generators and challenges with p for P
VerdictWith(p) ==
    VerifyVerdict(inp.variant, [vin EXCEPT !.p = p],
                  P_terms_rounds(P_terms_of(p), vv.challenges, vin.proof),
                  vv.product_cache, chal_log[Len(chal_log)]).pc

\* C24. The representation of P does not change the verdict: on the same
\* proof, generators and challenges, verify with P an opaque point and verify
\* with P a term list summing to that point end alike; every term taken from
\* P and every (e_j^2, L_j), (e_j^-2, R_j) term is scaled by -e^2 exactly
\* once, and no term appended later is scaled.
C24_RepresentationFree ==
    VerifyDecided
        => LET e     == chal_log[Len(chal_log)]
               m     == Len(vv.challenges)
               P0    == P_terms_of(vin.p)
               k0    == Len(P0)
               mv    == vv.multiexp_var
               n     == Len(vin.generators_g)
               last  == Len(mv)
               neg   == (Q - ((e * e) % Q)) % Q
           IN  /\ \A p \in OtherRepresentations(vin.p, vin) : VerdictWith(p) = pc
               /\ VerdictWith(vin.p) = pc
               /\ Len(vv.P_terms) = k0 + (2 * m)
               /\ \A k \in 1 .. k0 : mv[k] = <<(P0[k][1] * neg) % Q, P0[k][2]>>
               /\ \A j \in 1 .. m :
                    /\ mv[k0 + (2 * j) - 1]
                         = <<(Pow(vv.challenges[j][1], 2) * neg) % Q, vin.proof.L[j]>>
                    /\ mv[k0 + (2 * j)]
                         = <<(Pow(vv.challenges[j][2], 2) * neg) % Q, vin.proof.R[j]>>
               /\ \A k \in 1 .. n :
                    mv[k0 + (2 * m) + k]
                      = <<(vv.product_cache[k] * ((vin.proof.r_answer * e) % Q)) % Q,
                          vin.generators_g[k]>>
               /\ mv[last] = <<Q - 1, vin.proof.B>>
               /\ mv[last - 1] = <<vin.proof.delta_answer, vin.generator_h>>
               /\ \E k \in 1 .. last : mv[k] = <<(Q - e) % Q, vin.proof.A>>

\* verify refused a term list that does not open to the witness, after one round
C24_Witness ==
    /\ VerifyDecided
    /\ Rejected
    /\ vin.p.kind = "Terms"
    /\ Len(vv.challenges) = 1
    /\ chal_log[Len(chal_log)] = 2
    /\ VerdictWith(PPoint(multiexp(vin.p, DimOf(vin)))) = "verify_panic"

\* ------------------------------------------- the same call, another statement
\* term lists other than p
OtherTerms(p, i) ==
    {PTerms(<<>>), PTerms(Append(p.terms, <<1, i.generator_h>>))} \ {p}

\* calls of main() with one row of length one, two or four, or two rows of
\* length two
InitStatement ==
    \E sh \in {SingleShape(1), SingleShape(2), SingleShape(4), MultiShape(2, 2)},
       ws \in 0 .. MaxWitSeed, kind \in PKinds, seed \in 0 .. MaxRngSeed :
        InitWith(sh, TapeWitness(sh, ws), kind, seed)

\* a caller keeps the proof (in vin.proof) and the transcript of a first run
\* with p a term list and calls prove again with another term list for p: the
\* same witness and generators, a fresh transcript, and OsRng giving the
\* blinding scalars it gave the first time
ProveWithOtherP ==
    /\ pc = "proved"
    /\ p_log = NoLog
    /\ inp.p.kind = "Terms"
    /\ \E p2 \in OtherTerms(inp.p, inp) : inp' = [inp EXCEPT !.p = p2]
    /\ p_log' = [transcript |-> transcript, chal |-> chal_log, ops |-> ops]
    /\ vin' = [NoVerifyInput EXCEPT !.proof = proof]
    /\ rng' = RngRewind(rng, CountOps("random"))
    /\ transcript' = <<>>
    /\ ops' = <<>>
    /\ chal_log' = <<>>
    /\ pv' = NoLocals
    /\ proof' = NoProof
    /\ pc' = "prove_entry"
    /\ UNCHANGED <<oracle, vv, err, tamper>>

\* the caller hands verify another statement: another p, the generators with
\* their signs flipped, or both
VerifyOtherStatement ==
    /\ pc = "verify_entry"
    /\ tamper = "none"
    /\ \E p2 \in {vin.p, PPoint(vin.generator_h)} \cup OtherTerms(vin.p, vin), flip \in BOOLEAN :
         /\ p2 # vin.p \/ flip
         /\ vin' = [vin EXCEPT
                      !.p = p2,
                      !.generators_g = IF flip THEN [k \in 1 .. Len(@) |-> GNeg(@[k])] ELSE @,
                      !.generator_h = IF flip THEN GNeg(@) ELSE @]
         /\ tamper' = IF flip THEN "statement_and_generators" ELSE "statement"
    /\ UNCHANGED <<inp, rng, transcript, oracle, pv, proof, vv, pc, err, ops,
                   chal_log, p_log>>

NextStatement ==
    \/ Next
    \/ ProveWithOtherP
    \/ VerifyOtherStatement

SpecStatement == InitStatement /\ [][NextStatement]_vars

\* what prove has written to its transcript when its locals are l
ProverWrites(l) ==
    Flatten([j \in 1 .. Len(l.L_vec) |->
               <<<<"point", l.L_vec[j]>>, <<"point", l.R_vec[j]>>, <<"squeeze", <<>>>>>>])

\* C25. The statement is not bound into the transcript: prove and verify write
\* only L_j, R_j, A and B to it, so with the same witness, generators and
\* blinding scalars prove with P a term list returns the same proof for every
\* P, and the challenges verify derives are those of the proof's L, R, A, B,
\* whatever P and the generators are.
C25_StatementUnbound ==
    /\ pc = "prove_loop" => transcript = ProverWrites(pv)
    /\ pc = "proved" => transcript = ReplaySequence(proof)
    /\ (p_log # NoLog /\ (InProve \/ pc = "proved"))
          => /\ pc # "prove_panic"
             /\ IsPrefix(chal_log, p_log.chal)
             /\ IsPrefix(transcript, p_log.transcript)
             /\ (pc = "proved" => /\ proof = vin.proof
                                  /\ chal_log = p_log.chal
                                  /\ transcript = p_log.transcript)
    /\ VerifyStarted
          => /\ IsPrefix(transcript, ReplaySequence(vin.proof))
             /\ IsPrefix(chal_log, p_log.chal)
             /\ (VerifyEnded => /\ transcript = ReplaySequence(vin.proof)
                                /\ chal_log = p_log.chal)

\* a second run of two rounds with another term list for P has returned the
\* proof of the first run
C25_Witness ==
    /\ pc = "proved"
    /\ p_log # NoLog
    /\ inp.p # POf(inp.pkind, inp.variant, inp.witness, inp)
    /\ Len(proof.L) = 2
    /\ proof = vin.proof
    /\ chal_log = <<2, 1, 2>>


\* ------------------------------------------- prove, statement by statement
Last(q) == q[Len(q)]

\* the split, the n_hat assertions, d_l, d_r, L and R with their pushes; to
\* is where prove stands afterwards
CommitTo(to) ==
    /\ pc = "prove_loop"
    /\ Len(pv.g_bold) > 1
    /\ LET s   == SplitAll(pv)
           d_l == Random(rng, 1)
           d_r == Random(rng, 2)
           L   == multiexp(PTerms(L_terms(s, d_l, inp)), DimOf(inp))
           R   == multiexp(PTerms(R_terms(s, d_r, inp)), DimOf(inp))
       IN  IF ~ halves_ok(s)
           THEN /\ pc' = "prove_panic"
                /\ err' = "dimension_mismatch"
                /\ UNCHANGED <<rng, pv, ops>>
           ELSE /\ pc' = to
                /\ err' = err
                /\ rng' = RngAfter(rng, 2)
                /\ ops' = ops \o <<"random", "random", "multiexp", "multiexp">>
                /\ pv' = [g_bold |-> pv.g_bold, h_bold |-> pv.h_bold, a |-> pv.a,
                          b |-> pv.b, alpha |-> pv.alpha,
                          L_vec |-> Append(pv.L_vec, L), R_vec |-> Append(pv.R_vec, R),
                          rounds |-> pv.rounds, d_l |-> d_l, d_r |-> d_r]
    /\ UNCHANGED <<inp, transcript, oracle, proof, vin, vv, chal_log, p_log, tamper>>

\* a round that goes to the squeeze without writing L and R
StepCommit_skips_write == CommitTo("round_written")

\* the loop body up to R_vec.push(R)
StepCommit == CommitTo("round_committed")

\* transcript_L_R: the two write_point calls
StepWrite ==
    /\ pc = "round_committed"
    /\ transcript' = transcript_pair(transcript, Last(pv.L_vec), Last(pv.R_vec))
    /\ ops' = ops \o <<"write_point", "write_point">>
    /\ pc' = "round_written"
    /\ UNCHANGED <<inp, rng, oracle, pv, proof, vin, vv, err, chal_log, p_log, tamper>>

\* transcript_L_R: squeeze_challenge_scalar and the zero test
StepSqueeze ==
    /\ pc = "round_written"
    /\ \E e \in ChallengesAt(transcript) :
         /\ transcript' = squeezed(transcript)
         /\ oracle' = oracle \cup {<<transcript, e>>}
         /\ chal_log' = Append(chal_log, e)
         /\ ops' = Append(ops, "squeeze")
         /\ IF is_zero(e)
            THEN pc' = "prove_panic" /\ err' = "zero_challenge"
            ELSE pc' = "round_squeezed" /\ err' = err
    /\ UNCHANGED <<inp, rng, pv, proof, vin, vv, p_log, tamper>>

\* the rest of next_G_H and of the loop body: inv_e, the new generators, a, b
\* and alpha
StepFold ==
    /\ pc = "round_squeezed"
    /\ LET s == SplitAll(pv)
           l == [alpha |-> pv.alpha, rounds |-> pv.rounds,
                 L_vec |-> SubSeq(pv.L_vec, 1, Len(pv.L_vec) - 1),
                 R_vec |-> SubSeq(pv.R_vec, 1, Len(pv.R_vec) - 1)]
       IN  /\ pv' = FoldedLocals(l, s, Last(pv.L_vec), Last(pv.R_vec), pv.d_l, pv.d_r,
                                 Last(chal_log), DimOf(inp))
           /\ ops' = ops \o RoundOpsFold(s)
    /\ pc' = "prove_loop"
    /\ UNCHANGED <<inp, rng, transcript, oracle, proof, vin, vv, err, chal_log,
                   p_log, tamper>>

\* after the loop: the length assertions, the blinds, A and B
StepFinalCommit ==
    /\ pc = "prove_loop"
    /\ Len(pv.g_bold) <= 1
    /\ IF ~ final_lengths_ok(pv)
       THEN /\ pc' = "prove_panic"
            /\ err' = "dimension_mismatch"
            /\ UNCHANGED <<rng, pv, ops>>
       ELSE LET bl == FinalBlinds(rng, pv)
            IN  /\ pc' = "final_committed"
                /\ err' = err
                /\ rng' = RngAfter(rng, Len(pv.h_bold) + 3)
                /\ ops' = ops \o <<"random">> \o [k \in 1 .. Len(pv.h_bold) |-> "random"]
                              \o <<"random", "random", "multiexp", "multiexp">>
                /\ pv' = [g_bold |-> pv.g_bold, h_bold |-> pv.h_bold, a |-> pv.a,
                          b |-> pv.b, alpha |-> pv.alpha,
                          L_vec |-> pv.L_vec, R_vec |-> pv.R_vec, rounds |-> pv.rounds,
                          bl |-> bl,
                          A |-> multiexp(PTerms(A_terms(pv, bl, inp)), DimOf(inp)),
                          B |-> multiexp(PTerms(B_terms(pv, bl, inp)), DimOf(inp))]
    /\ UNCHANGED <<inp, transcript, oracle, proof, vin, vv, chal_log, p_log, tamper>>

\* transcript_A_B: the two write_point calls
StepFinalWrite ==
    /\ pc = "final_committed"
    /\ transcript' = transcript_pair(transcript, pv.A, pv.B)
    /\ ops' = ops \o <<"write_point", "write_point">>
    /\ pc' = "final_written"
    /\ UNCHANGED <<inp, rng, oracle, pv, proof, vin, vv, err, chal_log, p_log, tamper>>

\* transcript_A_B: squeeze_challenge_scalar and the zero test
StepFinalSqueeze ==
    /\ pc = "final_written"
    /\ \E e \in ChallengesAt(transcript) :
         /\ transcript' = squeezed(transcript)
         /\ oracle' = oracle \cup {<<transcript, e>>}
         /\ chal_log' = Append(chal_log, e)
         /\ ops' = Append(ops, "squeeze")
         /\ IF is_zero(e)
            THEN pc' = "prove_panic" /\ err' = "zero_challenge"
            ELSE pc' = "final_squeezed" /\ err' = err
    /\ UNCHANGED <<inp, rng, pv, proof, vin, vv, p_log, tamper>>

\* r_answer, s_answer, delta_answer and the WipProof returned
StepAnswers ==
    /\ pc = "final_squeezed"
    /\ LET e == Last(chal_log)
       IN  proof' = [L |-> pv.L_vec, R |-> pv.R_vec, A |-> pv.A, B |-> pv.B,
                     r_answer |-> r_answer_of(pv, pv.bl, e),
                     s_answer |-> s_answer_of(pv, pv.bl, e),
                     delta_answer |-> delta_answer_of(pv, pv.bl, e)]
    /\ pc' = "proved"
    /\ UNCHANGED <<inp, rng, transcript, oracle, pv, vin, vv, err, ops, chal_log,
                   p_log, tamper>>

NextSteps ==
    \/ ProveEntry
    \/ StepCommit
    \/ StepWrite
    \/ StepSqueeze
    \/ StepFold
    \/ StepFinalCommit
    \/ StepFinalWrite
    \/ StepFinalSqueeze
    \/ StepAnswers

SpecSteps == Init /\ [][NextSteps]_vars


\* the working vectors of prove among its locals
Working(l) == [g_bold |-> l.g_bold, h_bold |-> l.h_bold, a |-> l.a, b |-> l.b,
               alpha |-> l.alpha]

\* this step squeezes a challenge
Squeezes == Len(chal_log') = Len(chal_log) + 1

\* this step changes a working vector or alpha of a running prove
Folds == pv # NoLocals /\ Working(pv') # Working(pv)

\* this step pushes L and R of a round
PushesLR == pv # NoLocals /\ Len(pv'.L_vec) = Len(pv.L_vec) + 1

\* this step returns the proof
Answers == proof' # proof

\* the last three entries of the transcript are the points X, Y and, when
\* squeezed, the squeeze after them
EndsWith(t, X, Y, squeezedToo) ==
    LET n == IF squeezedToo THEN Len(t) - 1 ELSE Len(t)
    IN  /\ n >= 2
        /\ t[n - 1] = <<"point", X>>
        /\ t[n] = <<"point", Y>>
        /\ squeezedToo => t[Len(t)] = <<"squeeze", <<>>>>

\* L and R are those of the halves of the working vectors of l
FromWorking(l, L, R) ==
    /\ L = multiexp(PTerms(L_terms(SplitAll(l), l.d_l, inp)), DimOf(inp))
    /\ R = multiexp(PTerms(R_terms(SplitAll(l), l.d_r, inp)), DimOf(inp))

\* L_j and R_j come from the working vectors as they stand, which the step
\* leaves alone, and e_j is not squeezed yet
CommitStep ==
    PushesLR
        => /\ Len(chal_log) = Len(pv.L_vec) /\ chal_log' = chal_log
           /\ pv.rounds = Len(pv.L_vec)
           /\ Len(pv'.R_vec) = Len(pv'.L_vec)
           /\ FromWorking(pv @@ [d_l |-> pv'.d_l, d_r |-> pv'.d_r],
                          Last(pv'.L_vec), Last(pv'.R_vec))
           /\ Working(pv') = Working(pv)
           /\ transcript' = transcript

\* when e_j is squeezed, L_j and R_j are the last entries of L_vec and R_vec
\* and of the transcript, and the working vectors are still the ones L_j and
\* R_j were computed from
RoundSqueezeStep ==
    (Squeezes /\ Len(pv.g_bold) > 1)
        => LET j == Len(chal_log')
           IN  /\ Len(pv.L_vec) = j /\ Len(pv.R_vec) = j
               /\ pv.rounds = j - 1
               /\ EndsWith(transcript, pv.L_vec[j], pv.R_vec[j], FALSE)
               /\ EndsWith(transcript', pv.L_vec[j], pv.R_vec[j], TRUE)
               /\ Len(transcript') = 3 * j
               /\ FromWorking(pv, pv.L_vec[j], pv.R_vec[j])
               /\ pv' = pv

\* the fold of round j uses the e_j squeezed before it, which is not zero
FoldAfterSqueeze ==
    Folds
        => LET j == pv.rounds + 1
               e == chal_log[j]
               s == SplitAll(pv)
           IN  /\ Len(chal_log) = j /\ chal_log' = chal_log
               /\ transcript' = transcript
               /\ EndsWith(transcript, pv.L_vec[j], pv.R_vec[j], TRUE)
               /\ e # 0
               /\ pv'.g_bold = new_g_bold(s.g_bold1, s.g_bold2, e, FInvert(e), DimOf(inp))
               /\ pv'.h_bold = new_h_bold(s.h_bold1, s.h_bold2, e, FInvert(e), DimOf(inp))
               /\ pv'.a = fold_a(s.a1, s.a2, e, FInvert(e))
               /\ pv'.b = fold_b(s.b1, s.b2, e, FInvert(e))
               /\ pv'.alpha = fold_alpha(pv.alpha, pv.d_l, pv.d_r, e, FInvert(e))
               /\ pv'.rounds = j
               /\ pv'.L_vec = pv.L_vec /\ pv'.R_vec = pv.R_vec

\* A and B are on the transcript when the last challenge is squeezed, and no
\* answer exists yet
FinalSqueezeStep ==
    (Squeezes /\ Len(pv.g_bold) <= 1)
        => /\ Len(chal_log) = pv.rounds
           /\ EndsWith(transcript, pv.A, pv.B, FALSE)
           /\ EndsWith(transcript', pv.A, pv.B, TRUE)
           /\ proof = NoProof /\ proof' = NoProof

\* the answers are computed from the last challenge, squeezed before
AnswersAfterSqueeze ==
    Answers
        => LET e == Last(chal_log)
           IN  /\ Len(chal_log) = pv.rounds + 1 /\ chal_log' = chal_log
               /\ transcript' = transcript
               /\ EndsWith(transcript, pv.A, pv.B, TRUE)
               /\ e # 0
               /\ proof'.A = pv.A /\ proof'.B = pv.B
               /\ proof'.L = pv.L_vec /\ proof'.R = pv.R_vec
               /\ proof'.r_answer = FAdd(pv.bl.r, FMul(pv.a[1], e))
               /\ proof'.s_answer = s_answer_of(pv, pv.bl, e)
               /\ proof'.delta_answer = delta_answer_of(pv, pv.bl, e)

\* in the log of operations every squeeze follows two writes that follow two
\* multiexponentiations, and every inversion follows a squeeze
OpsInOrder ==
    \A k \in 1 .. Len(ops) :
        /\ ops[k] = "squeeze"
              => /\ k >= 5
                 /\ ops[k - 1] = "write_point" /\ ops[k - 2] = "write_point"
                 /\ ops[k - 3] = "multiexp" /\ ops[k - 4] = "multiexp"
        /\ ops[k] = "invert" => (k >= 2 /\ ops[k - 1] = "squeeze")
        /\ ops[k] = "fold" => \E i \in 1 .. k - 1 : ops[i] = "invert"

\* C26. Commit before challenge: in every folding round of prove, L_j and R_j
\* are computed from the pre-fold working vectors, pushed and written to the
\* transcript before challenge e_j is squeezed, and the fold of g_bold,
\* h_bold, a, b and alpha of that round uses e_j only after that squeeze;
\* likewise A and B are written before the final challenge is squeezed, and
\* r_answer, s_answer and delta_answer are computed only afterwards.
C26_CommitBeforeChallenge ==
    /\ [][CommitStep]_vars
    /\ [][RoundSqueezeStep]_vars
    /\ [][FoldAfterSqueeze]_vars
    /\ [][FinalSqueezeStep]_vars
    /\ [][AnswersAfterSqueeze]_vars
    /\ []OpsInOrder

\* prove returned after two rounds and three non-zero challenges
C26_Witness ==
    /\ pc = "proved"
    /\ Len(proof.L) = 2
    /\ chal_log = <<2, 1, 2>>
    /\ ops[Len(ops)] = "squeeze"

=============================================================================
